---- MODULE Spec2Model ----
(***************************************************************************)
(* Comment-extraction pipeline of the YouTube comments actor:              *)
(*   - the response parser (extractors/comments.ts),                       *)
(*   - the pagination engine extractComments (crawler.ts).                 *)
(* Strings stand for JavaScript strings; the empty string "" stands for    *)
(* every falsy string-or-null value (null, undefined, ""), which the code  *)
(* only ever tests with `if (x)` / `!x`.                                   *)
(***************************************************************************)
EXTENDS Integers, Sequences, FiniteSets, TLC

\* null / undefined / "" of a token or an id: the code tests them by truthiness
NoToken == ""
\* replyToCid: null of a top-level comment
NullCid == "<null>"

(***************************************************************************)
(* Raw InnerTube records                                                   *)
(***************************************************************************)

\* a text structure { runs?: [{text}], simpleText?: string }, or undefined
NoField == [present |-> FALSE, hasRuns |-> FALSE, runs |-> <<>>, simpleText |-> ""]
RunsField(parts) == [present |-> TRUE, hasRuns |-> TRUE, runs |-> parts, simpleText |-> ""]
SimpleField(s) == [present |-> TRUE, hasRuns |-> FALSE, runs |-> <<>>, simpleText |-> s]

RECURSIVE JoinRuns(_)
\* runs.map((run) => run.text).join('')
JoinRuns(parts) ==
    IF parts = <<>> THEN "" ELSE Head(parts) \o JoinRuns(Tail(parts))

\* extractCommentText: runs first (an empty runs array is still truthy), then simpleText
extractCommentText(contentText) ==
    IF ~contentText.present THEN ""
    ELSE IF contentText.hasRuns THEN JoinRuns(contentText.runs)
    ELSE IF contentText.simpleText # "" THEN contentText.simpleText
    ELSE ""

\* extractAuthorName: simpleText first, then runs
extractAuthorName(authorText) ==
    IF ~authorText.present THEN ""
    ELSE IF authorText.simpleText # "" THEN authorText.simpleText
    ELSE IF authorText.hasRuns THEN JoinRuns(authorText.runs)
    ELSE ""

\* a commentRenderer (legacy format).  authorIsChannelOwner is the JSON value
\* as sent: "true", "false", "absent" (undefined) or "other" (not a boolean).
Renderer(cid, contentText, authorText, replyCount, owner) ==
    [commentId |-> cid, contentText |-> contentText, authorText |-> authorText,
     replyCount |-> replyCount, authorIsChannelOwner |-> owner]

\* renderer.authorIsChannelOwner ?? false
OwnerOrFalse(v) == IF v = "absent" THEN "false" ELSE v

\* a commentEntityPayload (entity format); toolbar.replyCount is a string
Entity(cid, content, displayName, replyCount, isCreator) ==
    [commentId |-> cid, content |-> content, displayName |-> displayName,
     replyCount |-> replyCount, isCreator |-> isCreator]

\* parseInt(replyCountStr.replace(/,/g, ''), 10) || 0 on the strings the model sends
ParseReplyCount(s) ==
    CASE s = "0" -> 0
      [] s = "1" -> 1
      [] s = "2" -> 2
      [] s = "1,2" -> 12
      [] OTHER -> 0

\* a canonical CommentOutput (the fields the engine and the validator read)
CommentOutput(cid, comment, author, replyCount, owner, type, parentCid) ==
    [cid |-> cid, comment |-> comment, author |-> author, replyCount |-> replyCount,
     authorIsChannelOwner |-> owner, type |-> type, replyToCid |-> parentCid]

\* the "no comment" result (null) of the two record extractors
NullComment == CommentOutput("", "", "", 0, "false", "null", NullCid)

extractComment_emptyTextAllowed(renderer, type, parentCid) ==
    LET cid == renderer.commentId
        comment == extractCommentText(renderer.contentText)
        author == extractAuthorName(renderer.authorText)
    IN  IF cid = "" THEN NullComment
        ELSE IF author = "" THEN NullComment
        ELSE CommentOutput(cid, comment, author, renderer.replyCount,
                           OwnerOrFalse(renderer.authorIsChannelOwner), type, parentCid)

\* extractComment: a legacy record needs an id, a text and an author
extractComment(renderer, type, parentCid) ==
    LET cid == renderer.commentId
        comment == extractCommentText(renderer.contentText)
        author == extractAuthorName(renderer.authorText)
    IN  IF cid = "" THEN NullComment
        ELSE IF comment = "" \/ author = "" THEN NullComment
        ELSE CommentOutput(cid, comment, author, renderer.replyCount,
                           OwnerOrFalse(renderer.authorIsChannelOwner), type, parentCid)

\* extractCommentFromEntityPayload: an entity record needs an id and an author
extractCommentFromEntityPayload(payload, type, parentCid) ==
    IF payload.commentId = "" THEN NullComment
    ELSE IF payload.displayName = "" THEN NullComment
    ELSE CommentOutput(payload.commentId, payload.content, payload.displayName,
                       ParseReplyCount(payload.replyCount),
                       OwnerOrFalse(payload.isCreator), type, parentCid)

\* commentThread.replies: { commentRepliesRenderer: { contents: [...] } } or undefined;
\* contents is the sequence of the items' continuation tokens ("" = item without one)
NoReplies == [present |-> FALSE, contents |-> <<>>]
Replies(tokens) == [present |-> TRUE, contents |-> tokens]

RECURSIVE FirstToken(_)
FirstToken(tokens) ==
    IF tokens = <<>> THEN NoToken
    ELSE IF Head(tokens) # NoToken THEN Head(tokens)
    ELSE FirstToken(Tail(tokens))

\* extractReplyContinuationToken: the first truthy token of the contents
extractReplyContinuationToken(replies) ==
    IF ~replies.present THEN NoToken ELSE FirstToken(replies.contents)

\* items of a continuationItems array
ThreadItem(renderer, replies) ==
    [kind |-> "thread", renderer |-> renderer, replies |-> replies,
     token |-> NoToken, buttonToken |-> NoToken]
ContinuationItem(token, buttonToken) ==
    [kind |-> "continuation", renderer |-> Renderer("", NoField, NoField, 0, "absent"),
     replies |-> NoReplies, token |-> token, buttonToken |-> buttonToken]
ReplyItem(renderer) ==
    [kind |-> "comment", renderer |-> renderer, replies |-> NoReplies,
     token |-> NoToken, buttonToken |-> NoToken]

\* one element of onResponseReceivedEndpoints; wrapper is "reload"
\* (reloadContinuationItemsCommand), "append" (appendContinuationItemsAction)
\* or "unknown"
Endpoint(wrapper, items) == [wrapper |-> wrapper, items |-> items]

\* a raw response: the legacy endpoint list (possibly missing) and the entity
\* mutations of frameworkUpdates.entityBatchUpdate (possibly missing)
Response(hasEndpoints, endpoints, mutations) ==
    [hasEndpoints |-> hasEndpoints, iterable |-> TRUE, endpoints |-> endpoints,
     mutations |-> mutations]
\* a response whose onResponseReceivedEndpoints is neither absent nor iterable
\* (an object, a number): for...of throws a TypeError on it
NonIterableResponse(mutations) ==
    [hasEndpoints |-> TRUE, iterable |-> FALSE, endpoints |-> <<>>,
     mutations |-> mutations]

(***************************************************************************)
(* Map<string, string> with insertion order: a sequence of <<key, value>>  *)
(***************************************************************************)
MapHas(m, k) == \E i \in 1..Len(m) : m[i][1] = k

\* Map.set: an existing key keeps its position and takes the new value
MapSet(m, k, v) ==
    IF MapHas(m, k)
    THEN [i \in 1..Len(m) |-> IF m[i][1] = k THEN <<k, v>> ELSE m[i]]
    ELSE Append(m, <<k, v>>)

RECURSIVE MapMerge(_, _)
\* for (const [cid, token] of parsed.replyContinuationTokens) map.set(cid, token)
MapMerge(m, other) ==
    IF other = <<>> THEN m
    ELSE MapMerge(MapSet(m, Head(other)[1], Head(other)[2]), Tail(other))

Cids(cs) == {cs[i].cid : i \in 1..Len(cs)}

(***************************************************************************)
(* Response parser                                                         *)
(***************************************************************************)

\* the accumulator threaded through the legacy pass: the comments array, the
\* reply-token map and the nextContinuationToken the callback assigns
ParseAcc(comments, tokens, next) ==
    [comments |-> comments, replyContinuationTokens |-> tokens,
     nextContinuationToken |-> next]

\* the continuationItemRenderer part of one item: the endpoint token, then the
\* button token, each assigned when truthy (the later assignment wins)
ItemToken(item, next) ==
    IF item.kind # "continuation" THEN next
    ELSE IF item.buttonToken # NoToken THEN item.buttonToken
    ELSE IF item.token # NoToken THEN item.token
    ELSE next

\* one iteration of the item loop of processCommentItems
ProcessItem(acc, item) ==
    LET comment == IF item.kind = "thread"
                   THEN extractComment(item.renderer, "comment", NullCid)
                   ELSE NullComment
        replyToken == extractReplyContinuationToken(item.replies)
        comments == IF comment # NullComment THEN Append(acc.comments, comment)
                    ELSE acc.comments
        tokens == IF comment # NullComment /\ replyToken # NoToken /\ comment.replyCount > 0
                  THEN MapSet(acc.replyContinuationTokens, comment.cid, replyToken)
                  ELSE acc.replyContinuationTokens
    IN  ParseAcc(comments, tokens, ItemToken(item, acc.nextContinuationToken))

RECURSIVE processCommentItems(_, _)
processCommentItems(acc, items) ==
    IF items = <<>> THEN acc
    ELSE processCommentItems(ProcessItem(acc, Head(items)), Tail(items))

RECURSIVE ProcessEndpoints_anyWrapper(_, _)
ProcessEndpoints_anyWrapper(acc, endpoints) ==
    IF endpoints = <<>> THEN acc
    ELSE ProcessEndpoints_anyWrapper(processCommentItems(acc, Head(endpoints).items),
                                     Tail(endpoints))

RECURSIVE ProcessEndpoints(_, _)
\* the endpoint loop of parseCommentsFromResponse: reload and append wrappers
\* are processed, any other wrapper is skipped
ProcessEndpoints(acc, endpoints) ==
    IF endpoints = <<>> THEN acc
    ELSE LET e == Head(endpoints)
             acc2 == IF e.wrapper \in {"reload", "append"}
                     THEN processCommentItems(acc, e.items)
                     ELSE acc
         IN  ProcessEndpoints(acc2, Tail(endpoints))

RECURSIVE extractFromFrameworkUpdates_noSkip(_, _, _)
extractFromFrameworkUpdates_noSkip(mutations, existingIds, out) ==
    IF mutations = <<>> THEN out
    ELSE LET m == Head(mutations)
             c == extractCommentFromEntityPayload(m, "comment", NullCid)
         IN  IF m.commentId = "" \/ c = NullComment
             THEN extractFromFrameworkUpdates_noSkip(Tail(mutations), existingIds, out)
             ELSE extractFromFrameworkUpdates_noSkip(Tail(mutations),
                     existingIds \cup {c.cid}, Append(out, c))

RECURSIVE extractFromFrameworkUpdates(_, _, _)
\* the entity pass: skips ids already seen, adds every id it emits to the set
extractFromFrameworkUpdates(mutations, existingIds, out) ==
    IF mutations = <<>> THEN out
    ELSE LET m == Head(mutations)
             c == extractCommentFromEntityPayload(m, "comment", NullCid)
         IN  IF m.commentId = "" \/ m.commentId \in existingIds \/ c = NullComment
             THEN extractFromFrameworkUpdates(Tail(mutations), existingIds, out)
             ELSE extractFromFrameworkUpdates(Tail(mutations),
                     existingIds \cup {c.cid}, Append(out, c))

\* the legacy pass of parseCommentsFromResponse
LegacyPass(response) ==
    IF response.hasEndpoints
    THEN ProcessEndpoints(ParseAcc(<<>>, <<>>, NoToken), response.endpoints)
    ELSE ParseAcc(<<>>, <<>>, NoToken)

\* parseCommentsFromResponse: legacy pass, then the entity pass over the ids
\* the legacy pass produced.  The throw of for...of on a non-iterable endpoint
\* list is caught by the outer try, which the entity pass is inside of: the
\* function returns what it had, nothing.
parseCommentsFromResponse(response) ==
    LET legacy == LegacyPass(response)
        seenIds == Cids(legacy.comments)
        entityComments == extractFromFrameworkUpdates(response.mutations, seenIds, <<>>)
    IN  IF ~response.iterable THEN ParseAcc(<<>>, <<>>, NoToken)
        ELSE ParseAcc(legacy.comments \o entityComments,
                      legacy.replyContinuationTokens, legacy.nextContinuationToken)

\* the accumulator of parseRepliesFromResponse
ReplyAcc(replies, next) == [replies |-> replies, nextContinuationToken |-> next]

RECURSIVE ProcessReplyItems(_, _, _)
ProcessReplyItems(acc, items, parentCid) ==
    IF items = <<>> THEN acc
    ELSE LET item == Head(items)
             reply == IF item.kind = "comment"
                      THEN extractComment(item.renderer, "reply", parentCid)
                      ELSE NullComment
             replies == IF reply # NullComment THEN Append(acc.replies, reply)
                        ELSE acc.replies
         IN  ProcessReplyItems(ReplyAcc(replies, ItemToken(item, acc.nextContinuationToken)),
                               Tail(items), parentCid)

RECURSIVE ProcessReplyEndpoints(_, _, _)
\* only appendContinuationItemsAction wrappers carry replies
ProcessReplyEndpoints(acc, endpoints, parentCid) ==
    IF endpoints = <<>> THEN acc
    ELSE LET e == Head(endpoints)
             acc2 == IF e.wrapper = "append"
                     THEN ProcessReplyItems(acc, e.items, parentCid)
                     ELSE acc
         IN  ProcessReplyEndpoints(acc2, Tail(endpoints), parentCid)

\* parseRepliesFromResponse: the legacy pass one level down, every record
\* tagged type=reply and replyToCid=parentCid; no entity pass
parseRepliesFromResponse(response, parentCid) ==
    IF ~response.hasEndpoints THEN ReplyAcc(<<>>, NoToken)
    ELSE ProcessReplyEndpoints(ReplyAcc(<<>>, NoToken), response.endpoints, parentCid)

\* validateCommentOutput: cid and author non-empty strings, the boolean fields
\* booleans, type one of the two kinds; empty text passes.  videoId, pageUrl,
\* title and commentsCount come from the metadata of a validated URL and pass.
validateCommentOutput(c) ==
    /\ c.cid # ""
    /\ c.author # ""
    /\ c.authorIsChannelOwner \in {"true", "false"}
    /\ c.type \in {"comment", "reply"}

(***************************************************************************)
(* Landing page (metadata extractor)                                       *)
(***************************************************************************)

\* ytInitialData as the engine reads it: whether the document was found and
\* parsed, the messageRenderer texts of the item sections, and the tokens at
\* the two-column-results location and at the engagement-panel location
InitialData(present, messages, legacyToken, panelToken) ==
    [present |-> present, messages |-> messages,
     legacyToken |-> legacyToken, panelToken |-> panelToken]

\* runs.map((r) => r.text).join('').toLowerCase() on the messages the model sends
LowerMessage(m) ==
    CASE m = "Comments are turned off. Learn more" -> "comments are turned off. learn more"
      [] m = "COMMENTS DISABLED" -> "comments disabled"
      [] m = "Comments have been disabled" -> "comments have been disabled"
      [] OTHER -> m

\* message.includes(...) of the three phrases, on the lower-cased messages above
HasDisabledPhrase(lower) ==
    lower \in {"comments are turned off. learn more", "comments disabled",
               "comments have been disabled"}

areCommentsDisabled_never(ytInitialData) == FALSE

\* areCommentsDisabled: some messageRenderer text carries a disabled phrase
areCommentsDisabled(ytInitialData) ==
    \E i \in 1..Len(ytInitialData.messages) :
        HasDisabledPhrase(LowerMessage(ytInitialData.messages[i]))

extractCommentsContinuationToken_always(ytInitialData) == "k0"

\* extractCommentsContinuationToken: the two-column-results location is
\* searched first, the engagement panels second
extractCommentsContinuationToken(ytInitialData) ==
    IF ytInitialData.legacyToken # NoToken THEN ytInitialData.legacyToken
    ELSE ytInitialData.panelToken

(***************************************************************************)
(* Pagination engine: extractComments                                      *)
(***************************************************************************)
TOTAL_EXTRACTION_TIMEOUT_MS == 300000
FIRST_BATCH_DEADLINE_MS == 30000
MAX_CONSECUTIVE_EMPTY_PAGES == 3

\* bounds of the model
MaxFetches == 5
CapChoice == 3
MaxBatchFetches == 3

\* wall-clock time one awaited request (with its retries) may take
Delays == {0, FIRST_BATCH_DEADLINE_MS, TOTAL_EXTRACTION_TIMEOUT_MS}
\* the least time a request takes where each request is assumed to take some
MinRequestMs == 75000

VARIABLES
    pc,                        \* position in extractComments
    maxComments,               \* options.maxComments (0 = unlimited)
    includeReplies,            \* options.includeReplies
    comments,                  \* the accumulated comments array
    continuationToken,         \* top-level continuation token
    replyContinuationTokens,   \* Map parentCid -> first reply token
    consecutiveEmptyPages,
    timedOut,
    firstBatchReceived,
    elapsedMs,                 \* Date.now() - extractionStartTime
    replyIdx,                  \* position of the for-of loop over the map
    currentReplyToken,
    result,                    \* the returned ExtractCommentsResult (without comments)
    topFetches,                \* top-level paginated requests issued so far
    replyFetches,              \* reply requests issued so far
    landing,                   \* history: the landing page the bootstrap read
    fetchFailed,               \* history: some paginated request failed mid-loop
    exhausted,                 \* history: parents whose reply loop ran out of tokens
    call,                      \* a call of a pure function under check: its arguments
    ret,                       \* and what it returned
    retry,                     \* withRetry: its locals and what it has done so far
    pagesSeen,                 \* history: the top-level pages received, in order
    videoIdx,                  \* main: the loop index i (from 1)
    videoStates,               \* main: videoStates of the valid URLs
    dataset,                   \* main: what Actor.pushData received, in order
    request,                   \* the continuation token of the request in flight
    replySeen,                 \* history: the reply response the running parent loop last received
    minRequestMs,              \* environment: the least time an awaited request takes
    runSummary                 \* main: the RUN_SUMMARY written at the end

vars == <<pc, maxComments, includeReplies, comments, continuationToken,
          replyContinuationTokens, consecutiveEmptyPages, timedOut,
          firstBatchReceived, elapsedMs, replyIdx, currentReplyToken, result,
          topFetches, replyFetches, landing, fetchFailed, exhausted,
          call, ret, retry, pagesSeen, videoIdx, videoStates, dataset,
          request, replySeen, minRequestMs, runSummary>>

\* no pure-function call is under check during an extraction
NoCall == [fn |-> "none"]
NoRet == [done |-> FALSE]
Returned(value) == [done |-> TRUE, value |-> value]

\* withRetry before its loop: attempt = 0, lastError undefined, lastCategory
\* 'TRANSIENT'; fn not invoked yet, no sleep yet
NoError == [kind |-> "undefined", statusCode |-> [isNull |-> TRUE, code |-> 0], message |-> <<>>]
\* await sleep(delay): the sleep withRetry is suspended in, if any
NoSleep == [on |-> FALSE, delay |-> 0]
Sleep(delay) == [on |-> TRUE, delay |-> delay]
NoRetry ==
    [attempt |-> 0, lastError |-> NoError, lastCategory |-> "TRANSIENT",
     invocations |-> 0, sleeps |-> 0, sleeping |-> NoSleep]

\* main before the end of its loop: no RUN_SUMMARY written
NoSummary ==
    [written |-> FALSE, totalVideos |-> 0, successfulVideos |-> 0, failedVideos |-> 0]

\* Number.MAX_SAFE_INTEGER ("no cap"), cut to 2^31 - 1; no run accumulates
\* that many comments
MAX_SAFE_INTEGER == 2147483647
effectiveMaxComments == IF maxComments > 0 THEN maxComments ELSE MAX_SAFE_INTEGER

\* the paginated requests the model follows: MaxFetches in one extraction on
\* its own, MaxBatchFetches over the videos of a batch run
FetchBudget == IF videoStates = <<>> THEN MaxFetches ELSE MaxBatchFetches

\* ExtractCommentsResult: comments, completed, error?, errorCategory?
\* createEmptyMetadata(videoId, originalUrl): title '', commentsCount null
createEmptyMetadata == [extracted |-> FALSE]
\* { videoId, url, finalUrl, title, commentsCount } read from ytInitialData
ExtractedMetadata == [extracted |-> TRUE]

\* a result of the exits before the metadata is extracted
Result(cs, completed, error, category) ==
    [comments |-> cs, completed |-> completed, error |-> error,
     errorCategory |-> category, metadata |-> createEmptyMetadata]
\* a result of the exits after it
WithMetadata(r) == [r EXCEPT !.metadata = ExtractedMetadata]
\* nothing returned yet
NoResult == Result(<<>>, FALSE, "", "")

(***************************************************************************)
(* What the upstream may answer                                            *)
(***************************************************************************)
Plain(cid) ==
    Renderer(cid, RunsField(<<"text of ", cid>>), SimpleField("@user"), 0, "false")
\* a thread whose comment declares replies
WithReplies(cid) ==
    Renderer(cid, RunsField(<<"text of ", cid>>), SimpleField("@user"), 1, "absent")
\* a record whose authorIsChannelOwner is not a boolean: parsed, then rejected
\* by validateCommentOutput
Malformed(cid) ==
    Renderer(cid, SimpleField("text"), SimpleField("@user"), 1, "other")
NoAuthor(cid) ==
    Renderer(cid, SimpleField("text"), NoField, 0, "false")

NextItems(next) == IF next = NoToken THEN <<>> ELSE <<ContinuationItem(next, NoToken)>>

\* two threads, the first with a reply pointer
PageA(next) ==
    Response(TRUE,
        <<Endpoint("reload",
            <<ThreadItem(WithReplies("c1"), Replies(<<"rt1">>)),
              ThreadItem(Plain("c2"), NoReplies)>> \o NextItems(next))>>,
        <<>>)
\* a malformed thread with a reply pointer, and an entity record with empty text
PageB(next) ==
    Response(TRUE,
        <<Endpoint("append",
            <<ThreadItem(Malformed("c3"), Replies(<<"", "rt3">>))>> \o NextItems(next))>>,
        <<Entity("c4", "", "@entity", "0", "true")>>)
\* a page with a continuation pointer but no usable record
PageEmpty(next) ==
    Response(TRUE,
        <<Endpoint("append", <<ThreadItem(NoAuthor("c5"), NoReplies)>> \o NextItems(next))>>,
        <<>>)
\* a response of unrecognized shape
PageUnknown == Response(FALSE, <<>>, <<>>)
\* a response without endpoint list whose entity mutations hold one record
PageEntityOnly == Response(FALSE, <<>>, <<Entity("c6", "entity text", "@entity", "0", "false")>>)
\* the same with an endpoint list that is not iterable
PageBroken == NonIterableResponse(<<Entity("c6", "entity text", "@entity", "0", "false")>>)
\* a complete record under a wrapper the parser does not know
PageWrapped(next) ==
    Response(TRUE,
        <<Endpoint("unknown", <<ThreadItem(Plain("c8"), NoReplies)>> \o NextItems(next))>>,
        <<>>)
\* a record without author followed by a complete one
PageMixed(next) ==
    Response(TRUE,
        <<Endpoint("append",
            <<ThreadItem(NoAuthor("c5"), NoReplies),
              ThreadItem(Plain("c7"), NoReplies)>> \o NextItems(next))>>,
        <<>>)

TopTokens == {NoToken, "k1"}
TopPages ==
    {PageA(t) : t \in TopTokens} \cup {PageB(t) : t \in TopTokens}
        \cup {PageEmpty(t) : t \in TopTokens} \cup {PageUnknown}
        \cup {PageEntityOnly, PageBroken, PageWrapped("k1"), PageMixed("k1")}

\* one fresh reply
ReplyPageA(next) ==
    Response(TRUE, <<Endpoint("append", <<ReplyItem(Plain("r1"))>> \o NextItems(next))>>, <<>>)
\* a reply carrying the id and a reply count of a top-level record
ReplyPageB(next) ==
    Response(TRUE, <<Endpoint("append", <<ReplyItem(WithReplies("c3"))>> \o NextItems(next))>>, <<>>)

ReplyTokens == {NoToken, "k2"}
ReplyPages ==
    {ReplyPageA(t) : t \in ReplyTokens} \cup {ReplyPageB(t) : t \in ReplyTokens}
        \cup {PageUnknown}

\* the reply response a parent's loop last received: none before its first
NoReplySeen == [seen |-> FALSE, page |-> PageUnknown]
ReplySeen(page) == [seen |-> TRUE, page |-> page]

\* the landing page read by the bootstrap, if any
NotLanded == [fetched |-> FALSE, data |-> InitialData(FALSE, <<>>, NoToken, NoToken)]
Landed(data) == [fetched |-> TRUE, data |-> data]

\* landing pages
BootPages ==
    { InitialData(FALSE, <<>>, NoToken, NoToken),
      InitialData(TRUE, <<"Comments are turned off. Learn more">>, NoToken, NoToken),
      InitialData(TRUE, <<"Be the first", "COMMENTS DISABLED">>, "k0", NoToken),
      InitialData(TRUE, <<"Be the first to comment">>, NoToken, NoToken),
      InitialData(TRUE, <<>>, "k0", NoToken),
      InitialData(TRUE, <<>>, NoToken, "k0") }

ErrorCategories == {"PERMANENT", "BLOCKED", "TRANSIENT"}

(***************************************************************************)
(* Actions of extractComments                                              *)
(***************************************************************************)
Init ==
    /\ pc = "boot"
    /\ maxComments \in {0, CapChoice}
    /\ includeReplies \in BOOLEAN
    /\ comments = <<>>
    /\ continuationToken = NoToken
    /\ replyContinuationTokens = <<>>
    /\ consecutiveEmptyPages = 0
    /\ timedOut = FALSE
    /\ firstBatchReceived = FALSE
    /\ elapsedMs = 0
    /\ replyIdx = 1
    /\ currentReplyToken = NoToken
    /\ result = NoResult
    /\ topFetches = 0
    /\ replyFetches = 0
    /\ landing = NotLanded
    /\ fetchFailed = FALSE
    /\ exhausted = {}
    /\ pagesSeen = <<>>
    /\ request = NoToken
    /\ replySeen = NoReplySeen
    /\ minRequestMs = 0
    /\ runSummary = NoSummary
    /\ videoIdx = 0
    /\ videoStates = <<>>
    /\ dataset = <<>>
    /\ call = NoCall
    /\ ret = NoRet
    /\ retry = NoRetry

Min(a, b) == IF a <= b THEN a ELSE b

\* the times the request now awaited may take
RequestTimes == {d \in Delays \cup {minRequestMs} : d >= minRequestMs}

\* the clock after an awaited request; saturated at the total budget, above
\* which no comparison of the code distinguishes values
Advance(t, d) == Min(t + d, TOTAL_EXTRACTION_TIMEOUT_MS)

Return(r) ==
    /\ result' = r
    /\ pc' = "done"

FetchFailedResult_completed(category) ==
    Result(<<>>, TRUE, "", "")
\* the result of a failed landing-page fetch: error is result.error?.message
\* || 'Failed to fetch video page', errorCategory is result.category || 'TRANSIENT'
FetchFailedResult(category) ==
    Result(<<>>, FALSE, "Failed to fetch video page", category)

\* Step 1: the landing-page fetch failed (withRetry gave a failure outcome)
BootstrapFetchFailed ==
    /\ pc = "boot"
    /\ \E category \in ErrorCategories : Return(FetchFailedResult(category))
    /\ UNCHANGED <<landing, fetchFailed, exhausted, call, ret, retry, pagesSeen, request, replySeen,
                   minRequestMs, runSummary,
                   videoIdx, videoStates, dataset,
                   maxComments, includeReplies, comments, continuationToken,
                   replyContinuationTokens, consecutiveEmptyPages, timedOut,
                   firstBatchReceived, elapsedMs, replyIdx, currentReplyToken,
                   topFetches, replyFetches>>

\* Step 1, page fetched: initial data, disabled check, first token
Bootstrap ==
    /\ pc = "boot"
    /\ \E data \in BootPages :
        /\ landing' = Landed(data)
        /\ IF ~data.present
           THEN /\ Return(Result(<<>>, FALSE,
                                 "Failed to extract ytInitialData from video page",
                                 "PERMANENT"))
                /\ UNCHANGED continuationToken
           ELSE IF areCommentsDisabled(data)
           THEN /\ Return(Result(<<>>, TRUE, "Comments disabled for video", "PERMANENT"))
                /\ UNCHANGED continuationToken
           ELSE IF extractCommentsContinuationToken(data) = NoToken
           THEN /\ Return(WithMetadata(Result(<<>>, TRUE, "", "")))
                /\ UNCHANGED continuationToken
           ELSE /\ continuationToken' = extractCommentsContinuationToken(data)
                /\ pc' = "topCheck"
                /\ UNCHANGED result
    /\ UNCHANGED <<fetchFailed, exhausted, call, ret, retry, pagesSeen, request, replySeen,
                   minRequestMs, runSummary,
                   videoIdx, videoStates, dataset,
                   maxComments, includeReplies, comments, replyContinuationTokens,
                   consecutiveEmptyPages, timedOut, firstBatchReceived, elapsedMs,
                   replyIdx, currentReplyToken, topFetches, replyFetches>>

RECURSIVE AppendValid_restart(_, _, _)
AppendValid_restart(acc, new, cap) ==
    IF new = <<>> \/ Len(acc) >= cap THEN acc
    ELSE IF validateCommentOutput(Head(new))
         THEN AppendValid_restart(<<Head(new)>>, Tail(new), cap)
         ELSE AppendValid_restart(acc, Tail(new), cap)

RECURSIVE AppendValid_uncapped(_, _, _)
AppendValid_uncapped(acc, new, cap) ==
    IF new = <<>> THEN acc
    ELSE IF validateCommentOutput(Head(new))
         THEN AppendValid_uncapped(Append(acc, Head(new)), Tail(new), cap)
         ELSE AppendValid_uncapped(acc, Tail(new), cap)

RECURSIVE AppendValid(_, _, _)
\* for (const c of parsed) { if (comments.length >= cap) break;
\*                           if (validateCommentOutput(c)) comments.push(c); }
AppendValid(acc, new, cap) ==
    IF new = <<>> \/ Len(acc) >= cap THEN acc
    ELSE IF validateCommentOutput(Head(new))
         THEN AppendValid(Append(acc, Head(new)), Tail(new), cap)
         ELSE AppendValid(acc, Tail(new), cap)

TotalTimeout_never(t) == FALSE
\* elapsedMs >= TOTAL_EXTRACTION_TIMEOUT_MS
TotalTimeout(t) == t >= TOTAL_EXTRACTION_TIMEOUT_MS

FirstBatchTimeout_always(t, received) == t >= FIRST_BATCH_DEADLINE_MS
\* !firstBatchReceived && elapsedMs >= FIRST_BATCH_DEADLINE_MS
FirstBatchTimeout(t, received) == ~received /\ t >= FIRST_BATCH_DEADLINE_MS

NextEmptyCount_noReset(n, newCommentsCount) ==
    IF newCommentsCount = 0 THEN n + 1 ELSE n
\* if (newCommentsCount === 0) consecutiveEmptyPages++; else consecutiveEmptyPages = 0
NextEmptyCount(n, newCommentsCount) ==
    IF newCommentsCount = 0 THEN n + 1 ELSE 0

NextRequestToken_first(parsed) ==
    IF parsed.nextContinuationToken = NoToken THEN NoToken ELSE "k0"
\* continuationToken = parsed.nextContinuationToken (and the same assignment
\* to currentReplyToken): the token the next request of the loop sends
NextRequestToken(parsed) == parsed.nextContinuationToken

\* consecutiveEmptyPages >= MAX_CONSECUTIVE_EMPTY_PAGES
EmptyPageAbort(n) == n >= MAX_CONSECUTIVE_EMPTY_PAGES

\* head of the top-level while loop: loop condition, then the two timeout checks
TopCheck ==
    /\ pc = "topCheck"
    /\ IF continuationToken = NoToken \/ Len(comments) >= effectiveMaxComments
       THEN /\ pc' = "replyStart"
            /\ UNCHANGED <<timedOut, topFetches, request>>
       ELSE IF TotalTimeout(elapsedMs) \/ FirstBatchTimeout(elapsedMs, firstBatchReceived)
       THEN /\ timedOut' = TRUE
            /\ pc' = "replyStart"
            /\ UNCHANGED <<topFetches, request>>
       ELSE /\ topFetches + replyFetches < FetchBudget
            /\ topFetches' = topFetches + 1
            /\ request' = continuationToken
            /\ pc' = "topFetch"
            /\ UNCHANGED timedOut
    /\ UNCHANGED <<landing, fetchFailed, exhausted, call, ret, retry, pagesSeen, replySeen,
                   minRequestMs, runSummary,
                   videoIdx, videoStates, dataset,
                   maxComments, includeReplies, comments, continuationToken,
                   replyContinuationTokens, consecutiveEmptyPages, firstBatchReceived,
                   elapsedMs, replyIdx, currentReplyToken, result, replyFetches>>

TopFetchFailed_abort ==
    /\ pc = "topFetch"
    /\ fetchFailed' = TRUE
    /\ request' = NoToken
    /\ \E d \in RequestTimes : elapsedMs' = Advance(elapsedMs, d)
    /\ pc' = "finish"
    /\ UNCHANGED <<landing, exhausted, call, ret, retry, pagesSeen, replySeen,
                   minRequestMs, runSummary, videoIdx, videoStates,
                   dataset, maxComments, includeReplies, comments, continuationToken,
                   replyContinuationTokens, consecutiveEmptyPages, timedOut,
                   firstBatchReceived, replyIdx, currentReplyToken, result,
                   topFetches, replyFetches>>

\* the awaited top-level request failed (failure outcome, no data, or a throw): break
TopFetchFailed ==
    /\ pc = "topFetch"
    /\ fetchFailed' = TRUE
    /\ request' = NoToken
    /\ \E d \in RequestTimes : elapsedMs' = Advance(elapsedMs, d)
    /\ pc' = "replyStart"
    /\ UNCHANGED <<landing, exhausted, call, ret, retry, pagesSeen, replySeen,
                   minRequestMs, runSummary,
                   videoIdx, videoStates, dataset,
                   maxComments, includeReplies, comments, continuationToken,
                   replyContinuationTokens, consecutiveEmptyPages, timedOut,
                   firstBatchReceived, replyIdx, currentReplyToken, result,
                   topFetches, replyFetches>>

\* what the history keeps of a received page: the page and its parsed
\* comment count
PageSeen(page, newCommentsCount) == [page |-> page, yield |-> newCommentsCount]

\* the awaited top-level request returned a page: parse, count, append, merge
TopResponse ==
    /\ pc = "topFetch"
    /\ \E d \in RequestTimes : elapsedMs' = Advance(elapsedMs, d)
    /\ \E page \in TopPages :
          LET parsed == parseCommentsFromResponse(page)
              newCommentsCount == Len(parsed.comments)
          IN  /\ pagesSeen' = Append(pagesSeen, PageSeen(page, newCommentsCount))
              /\ consecutiveEmptyPages' =
                     NextEmptyCount(consecutiveEmptyPages, newCommentsCount)
              /\ IF newCommentsCount = 0 /\ EmptyPageAbort(consecutiveEmptyPages')
                 THEN /\ pc' = "replyStart"
                      /\ UNCHANGED <<firstBatchReceived, comments, replyContinuationTokens,
                                     continuationToken>>
                 ELSE /\ firstBatchReceived' = (firstBatchReceived \/ newCommentsCount # 0)
                      /\ comments' = AppendValid(comments, parsed.comments, effectiveMaxComments)
                      /\ replyContinuationTokens' =
                             MapMerge(replyContinuationTokens, parsed.replyContinuationTokens)
                      /\ continuationToken' = NextRequestToken(parsed)
                      /\ pc' = "topCheck"
    /\ request' = NoToken
    /\ UNCHANGED <<replySeen, minRequestMs, runSummary, landing, fetchFailed, exhausted, call, ret, retry,
                   videoIdx, videoStates, dataset,
                   maxComments, includeReplies, timedOut, replyIdx, currentReplyToken,
                   result, topFetches, replyFetches>>

\* Step 3 guard: includeReplies && comments.length < cap && !timedOut
ReplyStart ==
    /\ pc = "replyStart"
    /\ IF includeReplies /\ Len(comments) < effectiveMaxComments /\ ~timedOut
       THEN /\ replyIdx' = 1
            /\ pc' = "replyParent"
       ELSE /\ pc' = "finish"
            /\ UNCHANGED replyIdx
    /\ UNCHANGED <<landing, fetchFailed, exhausted, call, ret, retry, pagesSeen, request, replySeen,
                   minRequestMs, runSummary,
                   videoIdx, videoStates, dataset,
                   maxComments, includeReplies, comments, continuationToken,
                   replyContinuationTokens, consecutiveEmptyPages, timedOut,
                   firstBatchReceived, elapsedMs, currentReplyToken, result,
                   topFetches, replyFetches>>

\* comments.find((c) => c.cid === parentCid): index of the first match, 0 if none
FindComment(cs, cid) ==
    IF \E i \in 1..Len(cs) : cs[i].cid = cid
    THEN CHOOSE i \in 1..Len(cs) :
            /\ cs[i].cid = cid
            /\ \A j \in 1..(i - 1) : cs[j].cid # cid
    ELSE 0

\* !parentComment || parentComment.replyCount === 0
SkipParent(cs, cid) ==
    \/ FindComment(cs, cid) = 0
    \/ cs[FindComment(cs, cid)].replyCount = 0

\* head of the for-of loop over the reply-token map, for the entry at replyIdx
ReplyParent ==
    /\ pc = "replyParent"
    /\ IF replyIdx > Len(replyContinuationTokens)
       THEN /\ pc' = "finish"
            /\ UNCHANGED <<replyIdx, timedOut, currentReplyToken, replySeen>>
       ELSE IF Len(comments) >= effectiveMaxComments
       THEN /\ pc' = "finish"
            /\ UNCHANGED <<replyIdx, timedOut, currentReplyToken, replySeen>>
       ELSE IF TotalTimeout(elapsedMs)
       THEN /\ timedOut' = TRUE
            /\ pc' = "finish"
            /\ UNCHANGED <<replyIdx, currentReplyToken, replySeen>>
       ELSE IF SkipParent(comments, replyContinuationTokens[replyIdx][1])
       THEN /\ replyIdx' = replyIdx + 1
            /\ pc' = "replyParent"
            /\ UNCHANGED <<timedOut, currentReplyToken, replySeen>>
       ELSE /\ currentReplyToken' = replyContinuationTokens[replyIdx][2]
            /\ pc' = "replyCheck"
            /\ replySeen' = NoReplySeen
            /\ UNCHANGED <<replyIdx, timedOut>>
    /\ UNCHANGED <<landing, fetchFailed, exhausted, call, ret, retry, pagesSeen, request,
                   minRequestMs, runSummary,
                   videoIdx, videoStates, dataset,
                   maxComments, includeReplies, comments, continuationToken,
                   replyContinuationTokens, consecutiveEmptyPages, firstBatchReceived,
                   elapsedMs, result, topFetches, replyFetches>>

\* head of the inner while loop of one parent: loop condition, timeout check
ReplyCheck ==
    /\ pc = "replyCheck"
    /\ IF currentReplyToken = NoToken \/ Len(comments) >= effectiveMaxComments
       THEN /\ replyIdx' = replyIdx + 1
            /\ pc' = "replyParent"
            /\ exhausted' = IF currentReplyToken = NoToken
                            THEN exhausted \cup {replyContinuationTokens[replyIdx][1]}
                            ELSE exhausted
            /\ replySeen' = NoReplySeen
            /\ UNCHANGED <<timedOut, replyFetches, request>>
       ELSE IF TotalTimeout(elapsedMs)
       THEN /\ timedOut' = TRUE
            /\ pc' = "finish"
            /\ replySeen' = NoReplySeen
            /\ UNCHANGED <<replyIdx, replyFetches, exhausted, request>>
       ELSE /\ topFetches + replyFetches < FetchBudget
            /\ replyFetches' = replyFetches + 1
            /\ request' = currentReplyToken
            /\ pc' = "replyFetch"
            /\ UNCHANGED <<replyIdx, timedOut, exhausted, replySeen>>
    /\ UNCHANGED <<landing, fetchFailed, call, ret, retry, pagesSeen,
                   minRequestMs, runSummary,
                   videoIdx, videoStates, dataset,
                   maxComments, includeReplies, comments, continuationToken,
                   replyContinuationTokens, consecutiveEmptyPages, firstBatchReceived,
                   elapsedMs, currentReplyToken, result, topFetches>>

ReplyFetchFailed_resumeTop ==
    /\ pc = "replyFetch"
    /\ fetchFailed' = TRUE
    /\ request' = NoToken
    /\ replySeen' = NoReplySeen
    /\ \E d \in RequestTimes : elapsedMs' = Advance(elapsedMs, d)
    /\ replyIdx' = replyIdx + 1
    /\ pc' = "topCheck"
    /\ UNCHANGED <<landing, exhausted, call, ret, retry, pagesSeen,
                   minRequestMs, runSummary, videoIdx, videoStates,
                   dataset, maxComments, includeReplies, comments, continuationToken,
                   replyContinuationTokens, consecutiveEmptyPages, timedOut,
                   firstBatchReceived, currentReplyToken, result, topFetches,
                   replyFetches>>

ReplyFetchFailed_endPhase ==
    /\ pc = "replyFetch"
    /\ fetchFailed' = TRUE
    /\ request' = NoToken
    /\ replySeen' = NoReplySeen
    /\ \E d \in RequestTimes : elapsedMs' = Advance(elapsedMs, d)
    /\ replyIdx' = replyIdx
    /\ pc' = "finish"
    /\ UNCHANGED <<landing, exhausted, call, ret, retry, pagesSeen,
                   minRequestMs, runSummary, videoIdx, videoStates,
                   dataset, maxComments, includeReplies, comments, continuationToken,
                   replyContinuationTokens, consecutiveEmptyPages, timedOut,
                   firstBatchReceived, currentReplyToken, result, topFetches,
                   replyFetches>>

\* the awaited reply request failed: break out of this parent's loop only
ReplyFetchFailed ==
    /\ pc = "replyFetch"
    /\ fetchFailed' = TRUE
    /\ request' = NoToken
    /\ replySeen' = NoReplySeen
    /\ \E d \in RequestTimes : elapsedMs' = Advance(elapsedMs, d)
    /\ replyIdx' = replyIdx + 1
    /\ pc' = "replyParent"
    /\ UNCHANGED <<landing, exhausted, call, ret, retry, pagesSeen,
                   minRequestMs, runSummary,
                   videoIdx, videoStates, dataset,
                   maxComments, includeReplies, comments, continuationToken,
                   replyContinuationTokens, consecutiveEmptyPages, timedOut,
                   firstBatchReceived, currentReplyToken, result, topFetches,
                   replyFetches>>

\* the awaited reply request returned a page: parse, append, next reply token
ReplyResponse ==
    /\ pc = "replyFetch"
    /\ \E d \in RequestTimes : elapsedMs' = Advance(elapsedMs, d)
    /\ \E page \in ReplyPages :
          LET parsed == parseRepliesFromResponse(page, replyContinuationTokens[replyIdx][1])
          IN  /\ comments' = AppendValid(comments, parsed.replies, effectiveMaxComments)
              /\ currentReplyToken' = NextRequestToken(parsed)
              /\ replySeen' = ReplySeen(page)
    /\ request' = NoToken
    /\ pc' = "replyCheck"
    /\ UNCHANGED <<landing, fetchFailed, exhausted, call, ret, retry, pagesSeen,
                   minRequestMs, runSummary,
                   videoIdx, videoStates, dataset,
                   maxComments, includeReplies, continuationToken,
                   replyContinuationTokens, consecutiveEmptyPages, timedOut,
                   firstBatchReceived, replyIdx, result, topFetches, replyFetches>>

\* completed = !timedOut && (!continuationToken || comments.length >= cap)
Completed(isTimedOut, token, count, cap) ==
    ~isTimedOut /\ (token = NoToken \/ count >= cap)

\* the final return
Finish ==
    /\ pc = "finish"
    /\ Return(WithMetadata(Result(comments,
                     Completed(timedOut, continuationToken, Len(comments),
                               effectiveMaxComments), "", "")))
    /\ UNCHANGED <<landing, fetchFailed, exhausted, call, ret, retry, pagesSeen, request, replySeen,
                   minRequestMs, runSummary,
                   videoIdx, videoStates, dataset,
                   maxComments, includeReplies, comments, continuationToken,
                   replyContinuationTokens, consecutiveEmptyPages, timedOut,
                   firstBatchReceived, elapsedMs, replyIdx, currentReplyToken,
                   topFetches, replyFetches>>

Next ==
    \/ BootstrapFetchFailed
    \/ Bootstrap
    \/ TopCheck
    \/ TopFetchFailed
    \/ TopResponse
    \/ ReplyStart
    \/ ReplyParent
    \/ ReplyCheck
    \/ ReplyFetchFailed
    \/ ReplyResponse
    \/ Finish

Spec == Init /\ [][Next]_vars

(***************************************************************************)
(* Properties of the pagination engine                                     *)
(***************************************************************************)
Done == pc = "done"
AtCap == Len(comments) >= effectiveMaxComments
EmptyAborted == consecutiveEmptyPages >= MAX_CONSECUTIVE_EMPTY_PAGES

RECURSIVE TopLevel(_)
\* the type=comment records of a list, in order
TopLevel(cs) ==
    IF cs = <<>> THEN <<>>
    ELSE IF Head(cs).type = "comment" THEN <<Head(cs)>> \o TopLevel(Tail(cs))
    ELSE TopLevel(Tail(cs))

\* C1: once three consecutive fetched pages parsed to zero comments, no
\* further top-level fetch is issued, the top-level comments of the result are
\* exactly those of the earlier pages, and the result is partial
\* (completed = false).
C1_EmptyAbortStopsAndIsPartial ==
    /\ [](Done /\ EmptyAborted => result.completed = FALSE)
    /\ [][EmptyAborted =>
            /\ topFetches' = topFetches
            /\ TopLevel(comments') = TopLevel(comments)]_vars

\* the extraction got past the bootstrap with a token (the first top-level
\* request is always issued then)
Paginated == topFetches > 0
Fetches == topFetches + replyFetches

\* C2: with a cap N > 0, once the accumulated count reaches N exactly N
\* comments are retained, no further top-level or reply page is fetched, and
\* the result is partial (completed = false).
C2_CapReachedIsPartial ==
    /\ [](maxComments > 0 => Len(comments) <= maxComments)
    /\ [](Done /\ maxComments > 0 /\ Len(result.comments) >= maxComments =>
            /\ Len(result.comments) = maxComments
            /\ result.completed = FALSE)
    /\ [][maxComments > 0 /\ AtCap => Fetches' = Fetches]_vars

\* a parent of the reply-token map the reply loop should serve: replies are
\* wanted, the parent is a retained comment declaring replies
EligibleParent(i) ==
    /\ includeReplies
    /\ ~SkipParent(comments, replyContinuationTokens[i][1])
\* some eligible parent's reply continuation was not fetched to its end
RepliesRemain ==
    \E i \in 1..Len(replyContinuationTokens) :
        EligibleParent(i) /\ replyContinuationTokens[i][1] \notin exhausted

\* C3: after a bootstrap with a token the result is completed iff no top-level
\* token remains, no eligible reply continuation remains unfetched and the cap
\* was not reached; cap reached, a timeout or a mid-loop fetch failure give
\* completed = false.
C3_CompletedIffNothingRemains ==
    Done /\ Paginated =>
        /\ result.completed <=>
              (continuationToken = NoToken /\ ~RepliesRemain /\ ~AtCap)
        /\ (AtCap \/ timedOut \/ fetchFailed) => ~result.completed

\* the loop head the engine is at would start another request
AtTopHead == pc = "topCheck" /\ continuationToken # NoToken /\ ~AtCap
AtParentHead ==
    pc = "replyParent" /\ replyIdx <= Len(replyContinuationTokens) /\ ~AtCap
AtReplyHead == pc = "replyCheck" /\ currentReplyToken # NoToken /\ ~AtCap
TotalExpired == elapsedMs >= TOTAL_EXTRACTION_TIMEOUT_MS
FirstBatchExpired == ~firstBatchReceived /\ elapsedMs >= FIRST_BATCH_DEADLINE_MS

\* C4: at the head of every iteration of the top-level loop and of the reply
\* loops an expired deadline sets timedOut (total budget; first-batch deadline
\* while no non-empty page has arrived); no request is issued past an expired
\* deadline; once timedOut is set no request is issued, the accumulated
\* comments stay as they are and the result is completed = false with them.
C4_TimeoutStopsFetching ==
    /\ [](Done /\ timedOut => ~result.completed /\ result.comments = comments)
    /\ [][timedOut => timedOut' /\ Fetches' = Fetches /\ comments' = comments]_vars
    /\ [][Fetches' # Fetches => ~TotalExpired /\ ~FirstBatchExpired]_vars
    /\ [][AtTopHead /\ (TotalExpired \/ FirstBatchExpired) => timedOut']_vars
    /\ [][(AtParentHead \/ AtReplyHead) /\ TotalExpired => timedOut']_vars

C4_Witness == Done /\ timedOut /\ replyFetches > 0 /\ Len(comments) > 1

IsPrefix(a, b) == Len(a) <= Len(b) /\ \A i \in 1..Len(a) : a[i] = b[i]

\* C5: after a successful bootstrap the accumulated list only grows (a comment
\* once appended is never removed or replaced), and every exit returns exactly
\* that list, so a result is never empty once a comment was collected.
C5_AccumulatedCommentsKept ==
    /\ [](Done /\ Paginated => result.comments = comments)
    /\ [][IsPrefix(comments, comments')]_vars

C5_Witness == Done /\ fetchFailed /\ replyFetches > 0 /\ Len(result.comments) > 2

\* C6: in every result each reply has a replyToCid equal to the cid of a
\* top-level comment that occurs earlier in the returned list.
C6_RepliesFollowTheirParent ==
    Done =>
        \A i \in 1..Len(result.comments) :
            result.comments[i].type = "reply" =>
                \E j \in 1..(i - 1) :
                    /\ result.comments[j].type = "comment"
                    /\ result.comments[j].cid = result.comments[i].replyToCid

\* C7: the cids of the accumulated comments of one extraction are pairwise
\* distinct.
C7_CidsDistinct ==
    \A i, j \in 1..Len(comments) : comments[i].cid = comments[j].cid => i = j

DisabledLanding ==
    /\ landing.fetched
    /\ landing.data.present
    /\ \E i \in 1..Len(landing.data.messages) :
          landing.data.messages[i] \in {"Comments are turned off. Learn more",
                                        "COMMENTS DISABLED"}

\* C10 (as claimed): a landing page carrying the comments-turned-off message
\* ends the extraction without a paginated fetch, with no comments,
\* completed = true and no error or errorCategory.
C10_DisabledIsNotAnError ==
    Done /\ DisabledLanding =>
        /\ Fetches = 0
        /\ result.comments = <<>>
        /\ result.completed
        /\ result.error = "" /\ result.errorCategory = ""

\* C10 (amended): a landing page carrying the comments-turned-off message
\* ends the extraction without a paginated fetch, with no comments and
\* completed = true, and the result carries the error "Comments disabled"
\* with errorCategory PERMANENT.
C10_DisabledEndsImmediately ==
    /\ DisabledLanding => pc \in {"boot", "done"} /\ Fetches = 0
    /\ Done /\ DisabledLanding =>
        /\ result.comments = <<>>
        /\ result.completed
        /\ result.error = "Comments disabled for video"
        /\ result.errorCategory = "PERMANENT"

C10_Witness == Done /\ DisabledLanding /\ landing.data.legacyToken # NoToken

NoTokenLanding ==
    /\ landing.fetched
    /\ landing.data.present
    /\ ~DisabledLanding
    /\ landing.data.legacyToken = NoToken
    /\ landing.data.panelToken = NoToken

BootstrapFailed == ~landing.fetched \/ ~landing.data.present

\* C12: when the landing-page fetch fails or the initial data cannot be read,
\* the result is completed = false with an error message and an
\* errorCategory, holds no comments, and no paginated fetch was issued.
C12_BootstrapFailureIsAnError ==
    Done /\ BootstrapFailed =>
        /\ ~result.completed
        /\ result.error # ""
        /\ result.errorCategory \in ErrorCategories
        /\ result.comments = <<>>
        /\ Fetches = 0

C12_Witness == Done /\ ~landing.fetched /\ result.errorCategory = "BLOCKED"

(***************************************************************************)
(* The response parser on its own: one call of parseCommentsFromResponse   *)
(* or parseRepliesFromResponse on a response drawn from the records below  *)
(***************************************************************************)
MaxRecords == 2

SeqsUpTo(S, n) == UNION {[1..k -> S] : k \in 0..n}

\* legacy records: complete, without text (an empty runs array), without
\* author, without id
LegacyFull(cid) ==
    Renderer(cid, RunsField(<<"L">>), SimpleField("@legacy"), 1, "true")
LegacyNoText(cid) ==
    Renderer(cid, RunsField(<<>>), SimpleField("@legacy"), 0, "absent")
LegacyNoAuthor(cid) ==
    Renderer(cid, SimpleField("L"), RunsField(<<>>), 0, "absent")
LegacyRecords ==
    {LegacyFull("x"), LegacyFull("y"), LegacyNoText("x"), LegacyNoAuthor("x"),
     LegacyFull("")}

\* entity records: complete, without text, without author, without id
EntityFull(cid) == Entity(cid, "E", "@entity", "2", "false")
EntityNoText(cid) == Entity(cid, "", "@entity", "0", "absent")
EntityNoAuthor(cid) == Entity(cid, "E", "", "0", "absent")
EntityRecords ==
    {EntityFull("x"), EntityFull("y"), EntityNoText("x"), EntityNoAuthor("x"),
     EntityFull("")}

Wrappers == {"reload", "append", "unknown"}

RECURSIVE ThreadItems(_)
\* each record as a thread; a record declaring replies carries a reply pointer
ThreadItems(rs) ==
    IF rs = <<>> THEN <<>>
    ELSE <<ThreadItem(Head(rs), IF Head(rs).replyCount > 0
                                THEN Replies(<<"rt">>) ELSE NoReplies)>>
            \o ThreadItems(Tail(rs))

RECURSIVE ReplyItems(_)
ReplyItems(rs) ==
    IF rs = <<>> THEN <<>> ELSE <<ReplyItem(Head(rs))>> \o ReplyItems(Tail(rs))

ParseCommentsCalls ==
    {[fn |-> "parseCommentsFromResponse", wrapper |-> w, records |-> rs,
      response |-> Response(TRUE,
                     <<Endpoint(w, ThreadItems(rs) \o <<ContinuationItem("k1", "")>>)>>, ms)] :
        w \in Wrappers, rs \in SeqsUpTo(LegacyRecords, MaxRecords),
        ms \in SeqsUpTo(EntityRecords, MaxRecords)}
    \cup
    {[fn |-> "parseCommentsFromResponse", wrapper |-> "unknown", records |-> <<>>,
      response |-> Response(FALSE, <<>>, ms)] :
        ms \in SeqsUpTo(EntityRecords, MaxRecords)}

ParseRepliesCalls ==
    {[fn |-> "parseRepliesFromResponse", wrapper |-> w, records |-> rs,
      response |-> Response(TRUE,
                     <<Endpoint(w, ReplyItems(rs) \o <<ContinuationItem("", "k2")>>)>>, ms)] :
        w \in Wrappers, rs \in SeqsUpTo(LegacyRecords, MaxRecords),
        ms \in SeqsUpTo(EntityRecords, 1)}

InitParse ==
    /\ pc = "pure"
    /\ maxComments = 0
    /\ includeReplies = TRUE
    /\ comments = <<>>
    /\ continuationToken = NoToken
    /\ replyContinuationTokens = <<>>
    /\ consecutiveEmptyPages = 0
    /\ timedOut = FALSE
    /\ firstBatchReceived = FALSE
    /\ elapsedMs = 0
    /\ replyIdx = 1
    /\ currentReplyToken = NoToken
    /\ result = NoResult
    /\ topFetches = 0
    /\ replyFetches = 0
    /\ landing = NotLanded
    /\ fetchFailed = FALSE
    /\ exhausted = {}
    /\ pagesSeen = <<>>
    /\ request = NoToken
    /\ replySeen = NoReplySeen
    /\ minRequestMs = 0
    /\ runSummary = NoSummary
    /\ videoIdx = 0
    /\ videoStates = <<>>
    /\ dataset = <<>>
    /\ call \in ParseCommentsCalls \cup ParseRepliesCalls
    /\ ret = NoRet
    /\ retry = NoRetry

engineVars ==
    <<pc, maxComments, includeReplies, comments, continuationToken,
      replyContinuationTokens, consecutiveEmptyPages, timedOut,
      firstBatchReceived, elapsedMs, replyIdx, currentReplyToken, result,
      topFetches, replyFetches, landing, fetchFailed, exhausted,
      pagesSeen, videoIdx, videoStates, dataset,
      request, replySeen, minRequestMs, runSummary>>

ParseComments ==
    /\ call.fn = "parseCommentsFromResponse"
    /\ ~ret.done
    /\ ret' = Returned(parseCommentsFromResponse(call.response))
    /\ UNCHANGED <<call, retry, engineVars>>

ParseReplies ==
    /\ call.fn = "parseRepliesFromResponse"
    /\ ~ret.done
    /\ ret' = Returned(parseRepliesFromResponse(call.response, "p"))
    /\ UNCHANGED <<call, retry, engineVars>>

NextParse ==
    \/ ParseComments
    \/ ParseReplies

SpecParse == InitParse /\ [][NextParse]_vars

(***************************************************************************)
(* Properties of the response parser                                       *)
(***************************************************************************)
Parsed == ret.done
ParsedComments == Parsed /\ call.fn = "parseCommentsFromResponse"
\* the comments or replies the call returned
Out == IF call.fn = "parseCommentsFromResponse" THEN ret.value.comments
       ELSE ret.value.replies
\* the endpoint of the response is one the called parser reads
LegacyRead ==
    /\ call.response.hasEndpoints
    /\ call.wrapper \in (IF call.fn = "parseCommentsFromResponse"
                         THEN {"reload", "append"} ELSE {"append"})
Mutations == call.response.mutations
ParseIds == {"x", "y"}
Count(cs, cid) == Cardinality({i \in 1..Len(cs) : cs[i].cid = cid})

\* the response holds a legacy record, resp. an entity record, with this id
HasLegacy(cid) ==
    LegacyRead /\ \E k \in 1..Len(call.records) : call.records[k].commentId = cid
HasEntity(cid) == \E k \in 1..Len(Mutations) : Mutations[k].commentId = cid
\* the legacy records with this id that have a text and an author
CompleteLegacy(cid) ==
    {k \in 1..Len(call.records) :
        /\ LegacyRead
        /\ call.records[k].commentId = cid
        /\ call.records[k].contentText \in {RunsField(<<"L">>), SimpleField("L")}
        /\ call.records[k].authorText = SimpleField("@legacy")}
FromLegacy(c) == c.author = "@legacy" /\ c.comment = "L" /\ c.replyCount = 1
FromEntity(c) == c.author = "@entity" /\ c.comment \in {"E", ""}

\* the entity pass is additive: an entity comment is the only comment of its
\* id, and comes after every legacy comment
EntityPassAdditive ==
    \A i \in 1..Len(Out) :
        FromEntity(Out[i]) =>
            /\ Count(Out, Out[i].cid) = 1
            /\ \A j \in 1..Len(Out) : FromLegacy(Out[j]) => j < i

FirstUsableEntity(k) ==
    /\ call.fn = "parseCommentsFromResponse"
    /\ Mutations[k].commentId # "" /\ Mutations[k].displayName # ""
    /\ CompleteLegacy(Mutations[k].commentId) = {}
    /\ \A j \in 1..(k - 1) :
          ~(Mutations[j].commentId = Mutations[k].commentId
                /\ Mutations[j].displayName # "")
\* a legacy record (thread or reply) with id and author but empty text
TextlessLegacy(k) ==
    /\ LegacyRead
    /\ call.records[k].commentId # ""
    /\ call.records[k].authorText = SimpleField("@legacy")
    /\ call.records[k].contentText = RunsField(<<>>)

EmittedHaveAuthor == \A i \in 1..Len(Out) : Out[i].author # "" /\ Out[i].cid # ""
TextlessEntityEmitted ==
    \A k \in 1..Len(Mutations) :
        FirstUsableEntity(k) /\ Mutations[k].content = "" =>
            \E i \in 1..Len(Out) :
                /\ Out[i].cid = Mutations[k].commentId
                /\ Out[i].comment = ""
                /\ Out[i].author = Mutations[k].displayName

UpperChars == <<"A", "B", "C", "D", "E", "F", "G", "H", "I", "J", "K", "L", "M",
                "N", "O", "P", "Q", "R", "S", "T", "U", "V", "W", "X", "Y", "Z">>
LowerChars == <<"a", "b", "c", "d", "e", "f", "g", "h", "i", "j", "k", "l", "m",
                "n", "o", "p", "q", "r", "s", "t", "u", "v", "w", "x", "y", "z">>

\* one character of toLowerCase()
LowerChar(ch) ==
    IF \E i \in 1..Len(UpperChars) : UpperChars[i] = ch
    THEN LowerChars[CHOOSE i \in 1..Len(UpperChars) : UpperChars[i] = ch]
    ELSE ch

toLowerCase_identity(s) == s
\* s.toLowerCase()
toLowerCase(s) == [i \in 1..Len(s) |-> LowerChar(s[i])]

\* s.includes(sub)
includes(s, sub) ==
    \E k \in 0..(Len(s) - Len(sub)) :
        \A i \in 1..Len(sub) : s[k + i] = sub[i]

\* the phrases classifyError looks for
P_commentsDisabled ==
    <<"c", "o", "m", "m", "e", "n", "t", "s",
      " ", "d", "i", "s", "a", "b", "l", "e", "d">>
P_commentsTurnedOff ==
    <<"c", "o", "m", "m", "e", "n", "t", "s", " ", "a", "r",
      "e", " ", "t", "u", "r", "n", "e", "d", " ", "o", "f", "f">>
P_privateVideo == <<"p", "r", "i", "v", "a", "t", "e", " ", "v", "i", "d", "e", "o">>
P_videoUnavailable ==
    <<"v", "i", "d", "e", "o", " ", "u", "n",
      "a", "v", "a", "i", "l", "a", "b", "l", "e">>
P_ageRestricted == <<"a", "g", "e", "-", "r", "e", "s", "t", "r", "i", "c", "t", "e", "d">>
P_captcha == <<"c", "a", "p", "t", "c", "h", "a">>
P_botDetected == <<"b", "o", "t", " ", "d", "e", "t", "e", "c", "t", "e", "d">>
P_timeout == <<"t", "i", "m", "e", "o", "u", "t">>
P_econnreset == <<"e", "c", "o", "n", "n", "r", "e", "s", "e", "t">>

\* statusCode: number | null
NullStatus == [isNull |-> TRUE, code |-> 0]
Status(n) == [isNull |-> FALSE, code |-> n]
StatusIs(statusCode, n) == ~statusCode.isNull /\ statusCode.code = n

\* the first row of the precedence skipped: nothing is PERMANENT
IsPermanent_never(statusCode, lowerMessage) == FALSE

\* status 404, or a message of a permanent condition
IsPermanent(statusCode, lowerMessage) ==
    \/ StatusIs(statusCode, 404)
    \/ includes(lowerMessage, P_commentsDisabled)
    \/ includes(lowerMessage, P_commentsTurnedOff)
    \/ includes(lowerMessage, P_privateVideo)
    \/ includes(lowerMessage, P_videoUnavailable)
    \/ includes(lowerMessage, P_ageRestricted)

\* status 403 or 429, or a captcha / bot-detected message
IsBlocked(statusCode, lowerMessage) ==
    \/ StatusIs(statusCode, 403)
    \/ StatusIs(statusCode, 429)
    \/ includes(lowerMessage, P_captcha)
    \/ includes(lowerMessage, P_botDetected)

\* classifyError(statusCode, message); message is '' when undefined.  The
\* last two tests of the code (5xx, timeout / econnreset) and its default all
\* return TRANSIENT.
classifyError(statusCode, message) ==
    LET lowerMessage == toLowerCase(message)
    IN  IF IsPermanent(statusCode, lowerMessage) THEN "PERMANENT"
        ELSE IF IsBlocked(statusCode, lowerMessage) THEN "BLOCKED"
        ELSE IF ~statusCode.isNull /\ statusCode.code # 0
                /\ statusCode.code >= 500 /\ statusCode.code < 600 THEN "TRANSIENT"
        ELSE IF includes(lowerMessage, P_timeout) \/ includes(lowerMessage, P_econnreset)
             THEN "TRANSIENT"
        ELSE "TRANSIENT"

shouldRetry_always(category) == TRUE
\* shouldRetry(category)
shouldRetry(category) == category # "PERMANENT"

\* bounds of calculateBackoffDelay's inputs
MaxAttempt == 10
RandomSteps == 4

\* retry option profiles: the two DEFAULT_RETRY_OPTIONS of the source, and
\* the same with jitterFactor 0 and 1
RetryProfile(baseDelayMs, maxDelayMs, maxRetries, jitterPercent) ==
    [baseDelayMs |-> baseDelayMs, maxDelayMs |-> maxDelayMs,
     maxRetries |-> maxRetries, jitterPercent |-> jitterPercent]
DEFAULT_RETRY_OPTIONS == RetryProfile(200, 1000, 1, 50)
RetryProfiles ==
    {RetryProfile(b[1], b[2], b[3], j) :
        b \in {<<200, 1000, 1>>, <<1000, 30000, 3>>, <<1000, 5000, 3>>},
        j \in {0, 50, 100}}

CappedDelay_uncapped(exponentialDelay, maxDelayMs) == exponentialDelay
\* Math.min(exponentialDelay, maxDelayMs)
CappedDelay(exponentialDelay, maxDelayMs) == Min(exponentialDelay, maxDelayMs)

\* calculateBackoffDelay(attempt, options), with Math.random() = random /
\* RandomSteps.  jitter = jitterMin + random * (jitterMax - jitterMin) is the
\* fraction jitterNum / jitterDen.
calculateBackoffDelay(attempt, options, random) ==
    LET exponentialDelay == options.baseDelayMs * 2 ^ attempt
        cappedDelay == CappedDelay(exponentialDelay, options.maxDelayMs)
        jitterDen == 200 * RandomSteps
        jitterNum == (200 - options.jitterPercent) * RandomSteps
                        + random * 2 * options.jitterPercent
    IN  (cappedDelay * jitterNum) \div jitterDen

(***************************************************************************)
(* withRetry: one call, on an operation whose behaviour at each invocation *)
(* is given                                                                *)
(***************************************************************************)
MaxRetriesBound == 2

\* messages of thrown values
Msg_unexpected == <<"u", "n", "e", "x", "p", "e", "c", "t", "e", "d">>
Msg_notFound ==
    <<"F", "a", "i", "l", "e", "d", " ", "t", "o", " ", "f", "e", "t", "c", "h",
      " ", "v", "i", "d", "e", "o", " ", "p", "a", "g", "e", ":", " ", "4", "0", "4">>
Msg_private == <<"P", "r", "i", "v", "a", "t", "e", " ", "v", "i", "d", "e", "o">>
Msg_rateLimited ==
    <<"R", "a", "t", "e", " ", "l", "i", "m",
      "i", "t", "e", "d", ":", " ", "4", "2", "9">>
Msg_captcha ==
    <<"C", "A", "P", "T", "C", "H", "A", " ",
      "r", "e", "q", "u", "i", "r", "e", "d">>
Msg_timeout == <<"R", "e", "q", "u", "e", "s", "t", " ", "T", "i", "m", "e", "o", "u", "t">>
Msg_object == <<"[", "o", "b", "j", "e", "c", "t", " ", "O", "b", "j", "e", "c", "t", "]">>
Msg_null == <<"n", "u", "l", "l">>
Msg_undefined == <<"u", "n", "d", "e", "f", "i", "n", "e", "d">>

\* what fn() may throw: an Error (with or without a statusCode property), a
\* string, a plain object with a statusCode, null, undefined.  message is
\* the message of the Error, resp. String(value) of a value that is no Error.
ErrorValue(statusCode, message) ==
    [kind |-> "Error", statusCode |-> statusCode, message |-> message]
StringValue(s) == [kind |-> "string", statusCode |-> NullStatus, message |-> s]
ObjectValue(statusCode) ==
    [kind |-> "object", statusCode |-> statusCode, message |-> Msg_object]
NullValue == [kind |-> "null", statusCode |-> NullStatus, message |-> Msg_null]
UndefinedValue ==
    [kind |-> "undefined", statusCode |-> NullStatus, message |-> Msg_undefined]

\* one invocation of fn: it resolves with a value or rejects with a thrown value
Resolves(value) == [resolves |-> TRUE, value |-> value, thrown |-> NoError]
Rejects(thrown) == [resolves |-> FALSE, value |-> "", thrown |-> thrown]

Invocations ==
    { Resolves("page"),
      Rejects(ErrorValue(Status(404), Msg_notFound)),
      Rejects(ErrorValue(NullStatus, Msg_private)),
      Rejects(ErrorValue(Status(429), Msg_rateLimited)),
      Rejects(ErrorValue(Status(500), Msg_unexpected)),
      Rejects(ErrorValue(NullStatus, Msg_unexpected)),
      Rejects(StringValue(Msg_captcha)),
      Rejects(StringValue(Msg_timeout)),
      Rejects(ObjectValue(Status(403))),
      Rejects(NullValue),
      Rejects(UndefinedValue) }

\* the calls: maxRetries of the supplied options, and fn's behaviour at its
\* first, second, ... invocation
WithRetryCalls ==
    {[fn |-> "withRetry", maxRetries |-> n, behaviour |-> b] :
        n \in 0..MaxRetriesBound, b \in [1..(MaxRetriesBound + 1) -> Invocations]}

\* error instanceof Error ? error : new Error(String(error))
ToError(thrown) ==
    IF thrown.kind = "Error" THEN thrown
    ELSE ErrorValue(NullStatus, thrown.message)

\* (error as { statusCode?: number }).statusCode: reading a property of null
\* or undefined throws a TypeError
ReadThrows(thrown) == thrown.kind \in {"null", "undefined"}

RetrySuccess_zeroBased(data, attempts) ==
    [kind |-> "success", data |-> data, error |-> NoError, attempts |-> attempts - 1,
     category |-> ""]

\* RetryResult, and the rejection of the promise withRetry returned
RetrySuccess(data, attempts) ==
    [kind |-> "success", data |-> data, error |-> NoError, attempts |-> attempts,
     category |-> ""]
RetryFailure(error, attempts, category) ==
    [kind |-> "failure", data |-> "", error |-> error, attempts |-> attempts,
     category |-> category]
RetryThrew ==
    [kind |-> "thrown", data |-> "", error |-> ErrorValue(NullStatus, <<"T", "y", "p", "e", "E", "r", "r", "o", "r">>),
     attempts |-> 0, category |-> ""]

InitRetry ==
    /\ pc = "retryLoop"
    /\ maxComments = 0
    /\ includeReplies = TRUE
    /\ comments = <<>>
    /\ continuationToken = NoToken
    /\ replyContinuationTokens = <<>>
    /\ consecutiveEmptyPages = 0
    /\ timedOut = FALSE
    /\ firstBatchReceived = FALSE
    /\ elapsedMs = 0
    /\ replyIdx = 1
    /\ currentReplyToken = NoToken
    /\ result = NoResult
    /\ topFetches = 0
    /\ replyFetches = 0
    /\ landing = NotLanded
    /\ fetchFailed = FALSE
    /\ exhausted = {}
    /\ pagesSeen = <<>>
    /\ request = NoToken
    /\ replySeen = NoReplySeen
    /\ minRequestMs = 0
    /\ runSummary = NoSummary
    /\ videoIdx = 0
    /\ videoStates = <<>>
    /\ dataset = <<>>
    /\ call \in WithRetryCalls
    /\ ret = NoRet
    /\ retry = NoRetry

\* all variables of the engine but its position
engineData ==
    <<maxComments, includeReplies, comments, continuationToken,
      replyContinuationTokens, consecutiveEmptyPages, timedOut,
      firstBatchReceived, elapsedMs, replyIdx, currentReplyToken, result,
      topFetches, replyFetches, landing, fetchFailed, exhausted,
      pagesSeen, videoIdx, videoStates, dataset,
      request, replySeen, minRequestMs, runSummary>>

WithinBudget_oneLess(attempt, maxRetries) == attempt < maxRetries
\* the loop condition: attempt <= maxRetries
WithinBudget(attempt, maxRetries) == attempt <= maxRetries

DelayAfter_always(attempt, maxRetries) == TRUE
\* "Don't delay after last attempt": attempt < maxRetries
DelayAfter(attempt, maxRetries) == attempt < maxRetries

\* the options calculateBackoffDelay(attempt, options) works with: the
\* defaults overridden by the options withRetry was given
BackoffOptions == [DEFAULT_RETRY_OPTIONS EXCEPT !.maxRetries = call.maxRetries]

\* one iteration of the for loop: await fn(); return on success; in the catch
\* block classify, return when the category is not retried, and go to sleep
\* unless this was the last attempt
RetryAttempt ==
    /\ pc = "retryLoop"
    /\ WithinBudget(retry.attempt, call.maxRetries)
    /\ LET fnResult == call.behaviour[retry.attempt + 1]
           thrown == fnResult.thrown
           lastError == ToError(thrown)
           lastCategory == classifyError(thrown.statusCode, lastError.message)
           invoked == [retry EXCEPT !.invocations = @ + 1]
       IN  IF fnResult.resolves
           THEN /\ ret' = Returned(RetrySuccess(fnResult.value, retry.attempt + 1))
                /\ retry' = invoked
                /\ pc' = "done"
           ELSE IF ReadThrows(thrown)
           THEN /\ ret' = Returned(RetryThrew)
                /\ retry' = [invoked EXCEPT !.lastError = lastError]
                /\ pc' = "done"
           ELSE IF ~shouldRetry(lastCategory)
           THEN /\ ret' = Returned(RetryFailure(lastError, retry.attempt + 1, lastCategory))
                /\ retry' = [invoked EXCEPT !.lastError = lastError,
                                            !.lastCategory = lastCategory]
                /\ pc' = "done"
           ELSE IF DelayAfter(retry.attempt, call.maxRetries)
           THEN /\ \E random \in 0..(RandomSteps - 1) :
                      retry' = [invoked EXCEPT
                                   !.lastError = lastError,
                                   !.lastCategory = lastCategory,
                                   !.sleeping = Sleep(calculateBackoffDelay(
                                                   retry.attempt, BackoffOptions, random))]
                /\ pc' = "retrySleep"
                /\ UNCHANGED ret
           ELSE /\ retry' = [invoked EXCEPT
                                !.lastError = lastError,
                                !.lastCategory = lastCategory,
                                !.attempt = @ + 1]
                /\ pc' = "retryLoop"
                /\ UNCHANGED ret
    /\ UNCHANGED <<call, engineData>>

\* await sleep(delay) resolves; the loop goes to its next attempt
RetrySleep ==
    /\ pc = "retrySleep"
    /\ retry' = [retry EXCEPT !.sleeps = @ + 1, !.attempt = @ + 1,
                              !.sleeping = NoSleep]
    /\ pc' = "retryLoop"
    /\ UNCHANGED <<call, ret, engineData>>

RetryExhausted_defaultCategory ==
    /\ pc = "retryLoop"
    /\ ~WithinBudget(retry.attempt, call.maxRetries)
    /\ ret' = Returned(RetryFailure(retry.lastError, call.maxRetries + 1, "TRANSIENT"))
    /\ pc' = "done"
    /\ UNCHANGED <<call, retry, engineData>>

\* the loop ran out of attempts: the return after it
RetryExhausted ==
    /\ pc = "retryLoop"
    /\ ~WithinBudget(retry.attempt, call.maxRetries)
    /\ ret' = Returned(RetryFailure(retry.lastError, call.maxRetries + 1,
                                    retry.lastCategory))
    /\ pc' = "done"
    /\ UNCHANGED <<call, retry, engineData>>

NextRetry ==
    \/ RetryAttempt
    \/ RetrySleep
    \/ RetryExhausted

SpecRetry == InitRetry /\ [][NextRetry]_vars

(***************************************************************************)
(* Properties of withRetry                                                 *)
(***************************************************************************)
Retried == ret.done /\ call.fn = "withRetry"
Outcome == ret.value

\* invocations that reject with a failure of the Permanent row (status 404,
\* resp. a private-video message)
PermanentInvocations ==
    { Rejects(ErrorValue(Status(404), Msg_notFound)),
      Rejects(ErrorValue(NullStatus, Msg_private)) }
\* invocations that reject with a Blocked failure, resp. a Transient one
BlockedInvocations ==
    { Rejects(ErrorValue(Status(429), Msg_rateLimited)),
      Rejects(StringValue(Msg_captcha)),
      Rejects(ObjectValue(Status(403))) }
TransientInvocations ==
    { Rejects(ErrorValue(Status(500), Msg_unexpected)),
      Rejects(ErrorValue(NullStatus, Msg_unexpected)),
      Rejects(StringValue(Msg_timeout)) }

\* C13: for any behaviour of the wrapped operation withRetry resolves to one
\* outcome, success with the value or failure with error, category and
\* attempts; it never throws.
C13_WithRetryNeverThrows ==
    Retried =>
        \/ /\ Outcome.kind = "success"
           /\ Outcome.data = "page"
        \/ /\ Outcome.kind = "failure"
           /\ Outcome.error.kind = "Error"
           /\ Outcome.category \in ErrorCategories
           /\ Outcome.attempts \in 1..(call.maxRetries + 1)

\* C14: once an invocation fails with a Permanent error on attempt k the
\* operation is invoked no more, no sleep follows, and the outcome is failure
\* with category PERMANENT and attempts = k.
C14_PermanentNeverRetried ==
    call.fn = "withRetry" =>
        \A k \in 1..retry.invocations :
            call.behaviour[k] \in PermanentInvocations =>
                /\ retry.invocations = k
                /\ retry.sleeps = k - 1
                /\ Retried
                /\ Outcome.kind = "failure"
                /\ Outcome.category = "PERMANENT"
                /\ Outcome.attempts = k
                /\ Outcome.error = ToError(call.behaviour[k].thrown)

C14_Witness ==
    /\ Retried
    /\ call.maxRetries = 2
    /\ retry.invocations = 2
    /\ call.behaviour[2] \in PermanentInvocations

\* every invocation the budget allows fails Blocked or Transient
AllRetryable ==
    \A k \in 1..(call.maxRetries + 1) :
        call.behaviour[k] \in BlockedInvocations \cup TransientInvocations

\* C15: Blocked and Transient failures share one budget: the operation is
\* invoked at most maxRetries + 1 times, and when every attempt fails Blocked
\* or Transient the outcome is failure with attempts = maxRetries + 1 after
\* exactly maxRetries + 1 invocations.
C15_SharedRetryBudget ==
    call.fn = "withRetry" =>
        /\ retry.invocations <= call.maxRetries + 1
        /\ Retried /\ AllRetryable =>
              /\ Outcome.kind = "failure"
              /\ Outcome.attempts = call.maxRetries + 1
              /\ retry.invocations = call.maxRetries + 1
              /\ retry.sleeps = call.maxRetries
              /\ Outcome.category \in {"BLOCKED", "TRANSIENT"}

C15_Witness ==
    /\ Retried
    /\ call.maxRetries = 2
    /\ call.behaviour[1] \in BlockedInvocations
    /\ call.behaviour[2] \in TransientInvocations
    /\ call.behaviour[3] \in BlockedInvocations
    /\ Outcome.attempts = 3

\* the outcome is a RetryResult (the promise resolved)
Resolved == Retried /\ Outcome.kind \in {"success", "failure"}

\* C35: in every outcome attempts is the number of times the operation was
\* invoked, and once an invocation succeeded the operation is invoked no
\* more: success on invocation k returns attempts = k at once.
C35_AttemptsCountInvocations ==
    call.fn = "withRetry" =>
        /\ Resolved => Outcome.attempts = retry.invocations
        /\ \A k \in 1..retry.invocations :
              call.behaviour[k].resolves =>
                  /\ retry.invocations = k
                  /\ Retried
                  /\ Outcome.kind = "success"
                  /\ Outcome.attempts = k
                  /\ retry.sleeps = k - 1

C35_Witness ==
    /\ Resolved
    /\ call.maxRetries = 2
    /\ Outcome.kind = "success"
    /\ Outcome.attempts = 3
    /\ retry.invocations = 3

\* the delays calculateBackoffDelay(attempt, options) may return
BackoffDelays(attempt) ==
    {calculateBackoffDelay(attempt, BackoffOptions, random) :
        random \in 0..(RandomSteps - 1)}

\* the last invocation failed with an error that is retried
LastFailedRetryable ==
    /\ retry.invocations > 0
    /\ ~call.behaviour[retry.invocations].resolves
    /\ shouldRetry(retry.lastCategory)

\* C36: withRetry is suspended in the awaited operation or in a backoff
\* sleep only; it sleeps once between two consecutive attempts, never before
\* the first attempt, after a success, after a Permanent failure or after the
\* last attempt; the sleep after failed attempt k (from 0) lasts
\* calculateBackoffDelay(k, options).
C36_SleepsBetweenAttempts ==
    call.fn = "withRetry" =>
        /\ pc \in {"retryLoop", "retrySleep", "done"}
        /\ pc = "retrySleep" =>
              /\ retry.sleeping.on
              /\ retry.sleeping.delay \in BackoffDelays(retry.attempt)
              /\ retry.attempt = retry.invocations - 1
              /\ retry.sleeps = retry.invocations - 1
              /\ retry.attempt < call.maxRetries
              /\ LastFailedRetryable
        /\ pc # "retrySleep" => retry.sleeping = NoSleep
        /\ pc = "retryLoop" /\ WithinBudget(retry.attempt, call.maxRetries) =>
              /\ retry.sleeps = retry.invocations
              /\ retry.attempt = retry.invocations
        /\ pc = "retryLoop" /\ ~WithinBudget(retry.attempt, call.maxRetries) =>
              retry.sleeps = retry.invocations - 1
        /\ Retried => retry.sleeps = retry.invocations - 1

\* two sleeps, then the last attempt fails: no third sleep
C36_Witness ==
    /\ Resolved
    /\ call.maxRetries = 2
    /\ Outcome.kind = "failure"
    /\ retry.invocations = 3
    /\ retry.sleeps = 2

\* the invocation the outcome came from
LastThrown == call.behaviour[retry.invocations].thrown

\* C37: a failure outcome reports the last attempt: its error is what the
\* last invocation threw (wrapped in an Error when it was none) and its
\* category is the classification of that error, whatever the attempts before
\* threw.
C37_FailureReportsLastAttempt ==
    (Resolved /\ Outcome.kind = "failure") =>
        /\ Outcome.error = ToError(LastThrown)
        /\ Outcome.category =
              classifyError(LastThrown.statusCode, ToError(LastThrown).message)

\* Blocked, then Transient: TRANSIENT
C37_Witness ==
    /\ Resolved
    /\ call.maxRetries = 1
    /\ call.behaviour[1] \in BlockedInvocations
    /\ call.behaviour[2] \in TransientInvocations
    /\ Outcome.kind = "failure"
    /\ Outcome.category = "TRANSIENT"
    /\ Outcome.attempts = 2

(***************************************************************************)
(* classifyError on its own: one call on a (statusCode, message) pair      *)
(***************************************************************************)
Msg_empty == <<>>
Msg_disabledOwner ==
    <<"C", "o", "m", "m", "e", "n", "t", "s", " ", "D", "i", "s",
      "a", "b", "l", "e", "d", " ", "b", "y", " ", "o", "w", "n",
      "e", "r">>
Msg_turnedOff ==
    <<"C", "O", "M", "M", "E", "N", "T", "S", " ", "A", "R", "E",
      " ", "T", "U", "R", "N", "E", "D", " ", "O", "F", "F">>
Msg_unavailable ==
    <<"V", "i", "d", "e", "o", " ", "u", "n", "a", "v", "a", "i",
      "l", "a", "b", "l", "e">>
Msg_ageRestricted ==
    <<"A", "g", "e", "-", "R", "e", "s", "t", "r", "i", "c", "t",
      "e", "d", " ", "c", "o", "n", "t", "e", "n", "t">>
Msg_botDetected == <<"B", "o", "t", " ", "D", "e", "t", "e", "c", "t", "e", "d">>
Msg_econnreset == <<"r", "e", "a", "d", " ", "E", "C", "O", "N", "N", "R", "E", "S", "E", "T">>
Msg_captchaUnavailable ==
    <<"c", "a", "p", "t", "c", "h", "a", ":", " ", "v", "i", "d",
      "e", "o", " ", "u", "n", "a", "v", "a", "i", "l", "a", "b",
      "l", "e">>
Msg_timeoutCaptcha ==
    <<"T", "i", "m", "e", "o", "u", "t", " ", "w", "a", "i", "t",
      "i", "n", "g", " ", "f", "o", "r", " ", "c", "a", "p", "t",
      "c", "h", "a">>
Msg_timeoutPrivate ==
    <<"t", "i", "m", "e", "o", "u", "t", ":", " ", "P", "R", "I",
      "V", "A", "T", "E", " ", "V", "I", "D", "E", "O">>
Msg_nearMiss ==
    <<"p", "r", "i", "v", "a", "t", " ", "v", "i", "d", "e", "o",
      " ", "u", "n", "-", "a", "v", "a", "i", "l", "a", "b", "l",
      "e">>

\* the messages, each with what it was written to contain: a phrase of the
\* Permanent row, a phrase of the Blocked row
Tagged(message, permanent, blocked) ==
    [message |-> message, permanent |-> permanent, blocked |-> blocked]
ClassifyMessages ==
    { Tagged(Msg_empty, FALSE, FALSE),
      Tagged(Msg_unexpected, FALSE, FALSE),
      Tagged(Msg_nearMiss, FALSE, FALSE),
      Tagged(Msg_disabledOwner, TRUE, FALSE),
      Tagged(Msg_turnedOff, TRUE, FALSE),
      Tagged(Msg_private, TRUE, FALSE),
      Tagged(Msg_unavailable, TRUE, FALSE),
      Tagged(Msg_ageRestricted, TRUE, FALSE),
      Tagged(Msg_captcha, FALSE, TRUE),
      Tagged(Msg_botDetected, FALSE, TRUE),
      Tagged(Msg_timeout, FALSE, FALSE),
      Tagged(Msg_econnreset, FALSE, FALSE),
      Tagged(Msg_rateLimited, FALSE, FALSE),
      Tagged(Msg_captchaUnavailable, TRUE, TRUE),
      Tagged(Msg_timeoutCaptcha, FALSE, TRUE),
      Tagged(Msg_timeoutPrivate, TRUE, FALSE) }

StatusCodes ==
    {NullStatus} \cup
    {Status(n) : n \in {0, 200, 403, 404, 429, 499, 500, 503, 599, 600}}

ClassifyCalls ==
    {[fn |-> "classifyError", statusCode |-> sc, tagged |-> m] :
        sc \in StatusCodes, m \in ClassifyMessages}

InitClassify ==
    /\ pc = "pure"
    /\ maxComments = 0
    /\ includeReplies = TRUE
    /\ comments = <<>>
    /\ continuationToken = NoToken
    /\ replyContinuationTokens = <<>>
    /\ consecutiveEmptyPages = 0
    /\ timedOut = FALSE
    /\ firstBatchReceived = FALSE
    /\ elapsedMs = 0
    /\ replyIdx = 1
    /\ currentReplyToken = NoToken
    /\ result = NoResult
    /\ topFetches = 0
    /\ replyFetches = 0
    /\ landing = NotLanded
    /\ fetchFailed = FALSE
    /\ exhausted = {}
    /\ pagesSeen = <<>>
    /\ request = NoToken
    /\ replySeen = NoReplySeen
    /\ minRequestMs = 0
    /\ runSummary = NoSummary
    /\ videoIdx = 0
    /\ videoStates = <<>>
    /\ dataset = <<>>
    /\ call \in ClassifyCalls
    /\ ret = NoRet
    /\ retry = NoRetry

Classify ==
    /\ call.fn = "classifyError"
    /\ ~ret.done
    /\ ret' = Returned(classifyError(call.statusCode, call.tagged.message))
    /\ UNCHANGED <<call, retry, engineVars>>

NextClassify == Classify

SpecClassify == InitClassify /\ [][NextClassify]_vars

(***************************************************************************)
(* Properties of classifyError                                             *)
(***************************************************************************)
Classified == ret.done /\ call.fn = "classifyError"
CallStatus(n) == call.statusCode = Status(n)

\* C16 (as claimed): status 404 gives PERMANENT, 429 gives BLOCKED and 500
\* gives TRANSIENT, each for every message; (null, "unexpected") gives
\* TRANSIENT.
C16_StatusDecides ==
    Classified =>
        /\ CallStatus(404) => ret.value = "PERMANENT"
        /\ CallStatus(429) => ret.value = "BLOCKED"
        /\ CallStatus(500) => ret.value = "TRANSIENT"
        /\ call.statusCode = NullStatus /\ call.tagged.message = Msg_unexpected
              => ret.value = "TRANSIENT"

\* C16 (amended): status 404 gives PERMANENT for every message; 429 gives
\* BLOCKED for every message without a phrase of the Permanent row; 500 gives
\* TRANSIENT for every message without a phrase of the Permanent or the
\* Blocked row; (null, "unexpected") gives TRANSIENT.
C16_StatusDecidesUnlessMessage ==
    Classified =>
        /\ CallStatus(404) => ret.value = "PERMANENT"
        /\ CallStatus(429) /\ ~call.tagged.permanent => ret.value = "BLOCKED"
        /\ CallStatus(500) /\ ~call.tagged.permanent /\ ~call.tagged.blocked
              => ret.value = "TRANSIENT"
        /\ CallStatus(429) /\ call.tagged.permanent => ret.value = "PERMANENT"
        /\ CallStatus(500) /\ call.tagged.permanent => ret.value = "PERMANENT"
        /\ CallStatus(500) /\ call.tagged.blocked /\ ~call.tagged.permanent
              => ret.value = "BLOCKED"
        /\ call.statusCode = NullStatus /\ call.tagged.message = Msg_unexpected
              => ret.value = "TRANSIENT"

C16_Witness ==
    /\ Classified
    /\ CallStatus(429)
    /\ call.tagged.message = Msg_unavailable
    /\ ret.value = "PERMANENT"

\* the rows of the table
PermanentRow == CallStatus(404) \/ call.tagged.permanent
BlockedRow == CallStatus(403) \/ CallStatus(429) \/ call.tagged.blocked

\* C17: classifyError gives every (status, message) pair exactly one
\* category, the one of the first matching row: the Permanent row (404 or a
\* permanent message), then the Blocked row (403, 429 or a captcha /
\* bot-detected message), then TRANSIENT (5xx, timeout, connection reset, and
\* everything else); messages are matched whatever their case.
C17_FirstMatchingRowWins ==
    Classified =>
        /\ ret.value \in ErrorCategories
        /\ ret.value = IF PermanentRow THEN "PERMANENT"
                       ELSE IF BlockedRow THEN "BLOCKED"
                       ELSE "TRANSIENT"

C17_Witness ==
    /\ Classified
    /\ CallStatus(503)
    /\ call.tagged.message = Msg_captchaUnavailable
    /\ ret.value = "PERMANENT"

(***************************************************************************)
(* calculateBackoffDelay on its own.  The fractions are exact: jitterFactor *)
(* is a number of percent, Math.random() a number of RandomSteps-ths, both  *)
(* chosen so that the doubles of the code are exact too (0, 0.5, 1; n/4).   *)
(***************************************************************************)
BackoffCalls ==
    {[fn |-> "calculateBackoffDelay", attempt |-> a, options |-> o, random |-> r] :
        a \in 0..MaxAttempt, o \in RetryProfiles, r \in 0..(RandomSteps - 1)}

InitBackoff ==
    /\ pc = "pure"
    /\ maxComments = 0
    /\ includeReplies = TRUE
    /\ comments = <<>>
    /\ continuationToken = NoToken
    /\ replyContinuationTokens = <<>>
    /\ consecutiveEmptyPages = 0
    /\ timedOut = FALSE
    /\ firstBatchReceived = FALSE
    /\ elapsedMs = 0
    /\ replyIdx = 1
    /\ currentReplyToken = NoToken
    /\ result = NoResult
    /\ topFetches = 0
    /\ replyFetches = 0
    /\ landing = NotLanded
    /\ fetchFailed = FALSE
    /\ exhausted = {}
    /\ pagesSeen = <<>>
    /\ request = NoToken
    /\ replySeen = NoReplySeen
    /\ minRequestMs = 0
    /\ runSummary = NoSummary
    /\ videoIdx = 0
    /\ videoStates = <<>>
    /\ dataset = <<>>
    /\ call \in BackoffCalls
    /\ ret = NoRet
    /\ retry = NoRetry

Backoff ==
    /\ call.fn = "calculateBackoffDelay"
    /\ ~ret.done
    /\ ret' = Returned(calculateBackoffDelay(call.attempt, call.options, call.random))
    /\ UNCHANGED <<call, retry, engineVars>>

NextBackoff == Backoff

SpecBackoff == InitBackoff /\ [][NextBackoff]_vars

(***************************************************************************)
(* Properties of calculateBackoffDelay                                     *)
(***************************************************************************)
BackedOff == ret.done /\ call.fn = "calculateBackoffDelay"
\* c = min(maxDelay, baseDelay * 2^attempt)
BackoffCap ==
    IF call.options.baseDelayMs * 2 ^ call.attempt <= call.options.maxDelayMs
    THEN call.options.baseDelayMs * 2 ^ call.attempt
    ELSE call.options.maxDelayMs
\* floor(c * (1 - jitter/2)) and floor(c * (1 + jitter/2))
BackoffLow == (BackoffCap * (200 - call.options.jitterPercent)) \div 200
BackoffHigh == (BackoffCap * (200 + call.options.jitterPercent)) \div 200
\* Math.random() = 0.5
MidRandom == 2 * call.random = RandomSteps

\* C18: the delay lies between floor(c * (1 - jitter/2)) and
\* floor(c * (1 + jitter/2)) for c = min(maxDelay, baseDelay * 2^attempt);
\* with jitter 0 it is exactly c and does not decrease with the attempt; it
\* is floor(c) at the midpoint multiplier; with base 1000, max 30000 and
\* jitter 0.5 it is within 750..1250 at attempt 0 and 30000 at attempt 10.
C18_BackoffWithinJitter ==
    BackedOff =>
        /\ BackoffLow <= ret.value /\ ret.value <= BackoffHigh
        /\ call.random = 0 => ret.value = BackoffLow
        /\ MidRandom => ret.value = BackoffCap
        /\ call.options.jitterPercent = 0 =>
              /\ ret.value = BackoffCap
              /\ ret.value <= calculateBackoffDelay(call.attempt + 1, call.options,
                                                    call.random)
        /\ /\ call.options.baseDelayMs = 1000
           /\ call.options.maxDelayMs = 30000
           /\ call.options.jitterPercent = 50
           => /\ call.attempt = 0 => ret.value \in 750..1250
              /\ call.attempt = 10 /\ MidRandom => ret.value = 30000

C18_Witness ==
    /\ BackedOff
    /\ call.attempt = 10
    /\ call.options = RetryProfile(1000, 30000, 3, 50)
    /\ MidRandom
    /\ ret.value = 30000

(***************************************************************************)
(* URL normalizer: extractVideoId, validateYouTubeUrl, validateUrls.       *)
(* URLs are sequences of characters; the regular expressions are computed  *)
(* as the matcher computes them on such a sequence.                        *)
(***************************************************************************)
Digits == <<"0", "1", "2", "3", "4", "5", "6", "7", "8", "9">>
Range(f) == {f[i] : i \in DOMAIN f}
\* [a-zA-Z0-9_-]
IsIdChar(ch) ==
    ch \in Range(LowerChars) \cup Range(UpperChars) \cup Range(Digits) \cup {"_", "-"}

L_https == <<"h", "t", "t", "p", "s", ":", "/", "/">>
L_http == <<"h", "t", "t", "p", ":", "/", "/">>
L_www == <<"w", "w", "w", ".">>
L_youtube == <<"y", "o", "u", "t", "u", "b", "e", ".", "c", "o", "m">>
L_youtu_be == <<"y", "o", "u", "t", "u", ".", "b", "e">>
L_watch == <<"/", "w", "a", "t", "c", "h", "?">>
L_v == <<"v", "=">>
L_slash == <<"/">>
L_shorts == <<"/", "s", "h", "o", "r", "t", "s", "/">>
L_embed == <<"/", "e", "m", "b", "e", "d", "/">>
L_canonical ==
    <<"h", "t", "t", "p", "s", ":", "/", "/", "w", "w", "w", ".",
      "y", "o", "u", "t", "u", "b", "e", ".", "c", "o", "m", "/",
      "w", "a", "t", "c", "h", "?", "v", "=">>

\* the literal lit occurs in s at position k
StartsWithAt(s, k, lit) ==
    /\ k >= 1
    /\ k + Len(lit) - 1 <= Len(s)
    /\ SubSeq(s, k, k + Len(lit) - 1) = lit

\* ^https?:\/\/ : the position after the scheme, 0 when it does not match
AfterScheme(s) ==
    IF StartsWithAt(s, 1, L_https) THEN Len(L_https) + 1
    ELSE IF StartsWithAt(s, 1, L_http) THEN Len(L_http) + 1
    ELSE 0

\* ^https?:\/\/(?:www\.)?host resp. ^https?:\/\/host : the position after the
\* host, 0 when it does not match
AfterHost(s, host, wwwOptional) ==
    LET p == AfterScheme(s)
    IN  IF p = 0 THEN 0
        ELSE IF wwwOptional /\ StartsWithAt(s, p, L_www \o host)
             THEN p + Len(L_www) + Len(host)
        ELSE IF StartsWithAt(s, p, host) THEN p + Len(host)
        ELSE 0

\* ([a-zA-Z0-9_-]{11}) at position k: the group, <<>> when it does not match
IdAt(s, k) ==
    IF k >= 1 /\ k + 10 <= Len(s) /\ \A i \in k..(k + 10) : IsIdChar(s[i])
    THEN SubSeq(s, k, k + 10)
    ELSE <<>>

\* literal, then the id group, after position p (0 = no match so far)
IdAfter(s, p, lit) ==
    IF p > 0 /\ StartsWithAt(s, p, lit) THEN IdAt(s, p + Len(lit)) ELSE <<>>

\* /^https?:\/\/(?:www\.)?youtube\.com\/watch\?.*v=([a-zA-Z0-9_-]{11})/ : the
\* greedy .* takes the last v= that eleven id characters follow (the inputs
\* hold no line terminator, which . would not match)
MatchWatch(s) ==
    LET p == AfterHost(s, L_youtube, TRUE)
        q == p + Len(L_watch)
        at == {k \in q..Len(s) : IdAfter(s, k, L_v) # <<>>}
    IN  IF p > 0 /\ StartsWithAt(s, p, L_watch) /\ at # {}
        THEN IdAfter(s, CHOOSE k \in at : \A j \in at : j <= k, L_v)
        ELSE <<>>
\* /^https?:\/\/youtu\.be\/([a-zA-Z0-9_-]{11})/
MatchShort(s) == IdAfter(s, AfterHost(s, L_youtu_be, FALSE), L_slash)
\* /^https?:\/\/(?:www\.)?youtube\.com\/shorts\/([a-zA-Z0-9_-]{11})/
MatchShorts(s) == IdAfter(s, AfterHost(s, L_youtube, TRUE), L_shorts)
\* /^https?:\/\/(?:www\.)?youtube\.com\/embed\/([a-zA-Z0-9_-]{11})/
MatchEmbed(s) == IdAfter(s, AfterHost(s, L_youtube, TRUE), L_embed)

\* YOUTUBE_PATTERNS, in order
YOUTUBE_PATTERNS(s) == <<MatchWatch(s), MatchShort(s), MatchShorts(s), MatchEmbed(s)>>

RECURSIVE FirstMatch(_)
FirstMatch(matches) ==
    IF matches = <<>> THEN <<>>
    ELSE IF Head(matches) # <<>> THEN Head(matches)
    ELSE FirstMatch(Tail(matches))

extractVideoId_watchOnly(url) == MatchWatch(url)

\* extractVideoId(url): the group of the first pattern that matches; <<>> is null
extractVideoId(url) == FirstMatch(YOUTUBE_PATTERNS(url))

RECURSIVE TrimStart(_)
TrimStart(s) ==
    IF s # <<>> /\ Head(s) = " " THEN TrimStart(Tail(s)) ELSE s
RECURSIVE TrimEnd(_)
TrimEnd(s) ==
    IF s # <<>> /\ s[Len(s)] = " " THEN TrimEnd(SubSeq(s, 1, Len(s) - 1)) ELSE s
\* url.trim(); the inputs hold no white space but the space
Trim(s) == TrimEnd(TrimStart(s))

\* /^https?:\/\/(?:www\.)?(?:youtube\.com|youtu\.be)/i
isYouTubeDomain(s) ==
    \/ AfterHost(toLowerCase(s), L_youtube, TRUE) > 0
    \/ AfterHost(toLowerCase(s), L_youtu_be, TRUE) > 0

\* a value handed in as a URL: a string, or something that is no string
StringUrl(s) == [isString |-> TRUE, text |-> s]
NotAString == [isString |-> FALSE, text |-> <<>>]

\* UrlValidationResult; null is <<>> for videoId and normalizedUrl, "" for error
UrlValidationResult(isValid, videoId, normalizedUrl, error) ==
    [isValid |-> isValid, videoId |-> videoId, normalizedUrl |-> normalizedUrl,
     error |-> error]

\* the error messages, without the URL they quote
UrlRequired == "URL is required and must be a string"
InvalidYouTubeUrl == "Invalid YouTube URL"
NoVideoId == "Could not extract video ID from URL"

validateYouTubeUrl(url) ==
    IF ~url.isString \/ url.text = <<>>
    THEN UrlValidationResult(FALSE, <<>>, <<>>, UrlRequired)
    ELSE LET trimmedUrl == Trim(url.text)
             videoId == extractVideoId(trimmedUrl)
         IN  IF ~isYouTubeDomain(trimmedUrl)
             THEN UrlValidationResult(FALSE, <<>>, <<>>, InvalidYouTubeUrl)
             ELSE IF videoId = <<>>
             THEN UrlValidationResult(FALSE, <<>>, <<>>, NoVideoId)
             ELSE UrlValidationResult(TRUE, videoId, L_canonical \o videoId, "")

\* validateUrls(urls): the loop, with the lists built so far
RECURSIVE ValidateEach(_, _, _)
ValidateEach(urls, valid, invalid) ==
    IF urls = <<>> THEN [valid |-> valid, invalid |-> invalid]
    ELSE LET url == Head(urls)
             validation == validateYouTubeUrl(url)
         IN  IF validation.isValid /\ validation.videoId # <<>> /\ validation.normalizedUrl # <<>>
             THEN ValidateEach(Tail(urls),
                               Append(valid, [url |-> url, videoId |-> validation.videoId,
                                              normalizedUrl |-> validation.normalizedUrl]),
                               invalid)
             ELSE ValidateEach(Tail(urls), valid,
                               Append(invalid,
                                      [url |-> url,
                                       error |-> IF validation.error # "" THEN validation.error
                                                 ELSE "Unknown validation error"]))

RECURSIVE Reverse(_)
Reverse(q) == IF q = <<>> THEN <<>> ELSE Append(Reverse(Tail(q)), Head(q))
validateUrls_reversed(urls) == ValidateEach(Reverse(urls), <<>>, <<>>)

validateUrls(urls) == ValidateEach(urls, <<>>, <<>>)

(***************************************************************************)
(* The URL normalizer on its own: one call of validateYouTubeUrl or of     *)
(* validateUrls                                                            *)
(***************************************************************************)
MaxUrls == 3

Id_a == <<"d", "Q", "w", "4", "w", "9", "W", "g", "X", "c", "Q">>
Id_b == <<"_", "-", "a", "Z", "0", "9", "v", "_", "-", "a", "Z">>
Id_c == <<"v", "v", "v", "v", "v", "v", "v", "v", "v", "v", "v">>
L_listParam == <<"l", "i", "s", "t", "=", "P", "L", "1", "&">>
L_timeParam == <<"&", "t", "=", "1", "0", "s">>
L_timeQuery == <<"?", "t", "=", "1", "0">>
Url_google ==
    <<"h", "t", "t", "p", "s", ":", "/", "/", "w", "w", "w", ".",
      "g", "o", "o", "g", "l", "e", ".", "c", "o", "m">>
Url_home ==
    <<"h", "t", "t", "p", "s", ":", "/", "/", "w", "w", "w", ".",
      "y", "o", "u", "t", "u", "b", "e", ".", "c", "o", "m", "/">>
Url_plain == <<"i", "n", "v", "a", "l", "i", "d", "-", "u", "r", "l">>
Url_blank == <<" ", " ", " ">>
Url_shortId ==
    <<"h", "t", "t", "p", "s", ":", "/", "/", "w", "w", "w", ".",
      "y", "o", "u", "t", "u", "b", "e", ".", "c", "o", "m", "/",
      "w", "a", "t", "c", "h", "?", "v", "=", "s", "h", "o", "r",
      "t">>
Url_upperHost ==
    <<"h", "t", "t", "p", "s", ":", "/", "/", "W", "W", "W", ".",
      "Y", "O", "U", "T", "U", "B", "E", ".", "C", "O", "M", "/",
      "w", "a", "t", "c", "h", "?", "v", "=", "d", "Q", "w", "4",
      "w", "9", "W", "g", "X", "c", "Q">>
Url_mobile ==
    <<"h", "t", "t", "p", "s", ":", "/", "/", "m", ".", "y", "o",
      "u", "t", "u", "b", "e", ".", "c", "o", "m", "/", "w", "a",
      "t", "c", "h", "?", "v", "=", "d", "Q", "w", "4", "w", "9",
      "W", "g", "X", "c", "Q">>

VideoIds == {Id_a, Id_b, Id_c}
Shapes == {"watch", "watchParam", "short", "shorts", "embed"}

\* host and path of a shape, up to the id
ShapePath(shape, www) ==
    CASE shape = "watch" -> www \o L_youtube \o L_watch \o L_v
      [] shape = "watchParam" -> www \o L_youtube \o L_watch \o L_listParam \o L_v
      [] shape = "short" -> L_youtu_be \o L_slash
      [] shape = "shorts" -> www \o L_youtube \o L_shorts
      [] shape = "embed" -> www \o L_youtube \o L_embed

\* the URLs of the recognized shapes, each with the shape and the id it carries
ShapedUrls ==
    {[fn |-> "validateYouTubeUrl", shape |-> shape, id |-> id,
      url |-> StringUrl(pad \o scheme \o ShapePath(shape, www) \o id \o suffix \o pad)] :
        shape \in Shapes, id \in VideoIds, scheme \in {L_https, L_http},
        www \in {L_www, <<>>}, suffix \in {<<>>, L_timeParam, L_timeQuery},
        pad \in {<<>>, <<" ">>}}

\* values that are no URL of a recognized shape
OtherUrls ==
    {[fn |-> "validateYouTubeUrl", shape |-> "none", id |-> <<>>, url |-> u] :
        u \in {NotAString, StringUrl(<<>>), StringUrl(Url_blank), StringUrl(Url_google),
               StringUrl(Url_home), StringUrl(Url_plain), StringUrl(Url_shortId),
               StringUrl(Url_upperHost), StringUrl(Url_mobile)}}

\* the entries of a batch, each with whether it is a URL of a recognized shape
BatchEntry(url, recognized) == [url |-> url, recognized |-> recognized]
BatchEntries ==
    { BatchEntry(StringUrl(L_https \o ShapePath("watch", L_www) \o Id_a), TRUE),
      BatchEntry(StringUrl(<<" ">> \o L_http \o ShapePath("short", <<>>) \o Id_b), TRUE),
      BatchEntry(StringUrl(Url_google), FALSE),
      BatchEntry(StringUrl(Url_home), FALSE),
      BatchEntry(StringUrl(<<>>), FALSE),
      BatchEntry(NotAString, FALSE) }

RECURSIVE UrlsOf(_)
UrlsOf(entries) ==
    IF entries = <<>> THEN <<>> ELSE <<Head(entries).url>> \o UrlsOf(Tail(entries))

BatchCalls ==
    {[fn |-> "validateUrls", entries |-> es, urls |-> UrlsOf(es)] :
        es \in SeqsUpTo(BatchEntries, MaxUrls)}

InitUrl ==
    /\ pc = "pure"
    /\ maxComments = 0
    /\ includeReplies = TRUE
    /\ comments = <<>>
    /\ continuationToken = NoToken
    /\ replyContinuationTokens = <<>>
    /\ consecutiveEmptyPages = 0
    /\ timedOut = FALSE
    /\ firstBatchReceived = FALSE
    /\ elapsedMs = 0
    /\ replyIdx = 1
    /\ currentReplyToken = NoToken
    /\ result = NoResult
    /\ topFetches = 0
    /\ replyFetches = 0
    /\ landing = NotLanded
    /\ fetchFailed = FALSE
    /\ exhausted = {}
    /\ pagesSeen = <<>>
    /\ request = NoToken
    /\ replySeen = NoReplySeen
    /\ minRequestMs = 0
    /\ runSummary = NoSummary
    /\ videoIdx = 0
    /\ videoStates = <<>>
    /\ dataset = <<>>
    /\ call \in ShapedUrls \cup OtherUrls \cup BatchCalls
    /\ ret = NoRet
    /\ retry = NoRetry

ValidateOne ==
    /\ call.fn = "validateYouTubeUrl"
    /\ ~ret.done
    /\ ret' = Returned(validateYouTubeUrl(call.url))
    /\ UNCHANGED <<call, retry, engineVars>>

ValidateBatch ==
    /\ call.fn = "validateUrls"
    /\ ~ret.done
    /\ ret' = Returned(validateUrls(call.urls))
    /\ UNCHANGED <<call, retry, engineVars>>

NextUrl ==
    \/ ValidateOne
    \/ ValidateBatch

SpecUrl == InitUrl /\ [][NextUrl]_vars

(***************************************************************************)
(* Properties of the URL normalizer                                        *)
(***************************************************************************)
ValidatedOne == ret.done /\ call.fn = "validateYouTubeUrl"
ValidatedBatch == ret.done /\ call.fn = "validateUrls"

\* C19: for an 11-character id, the watch, short-link, shorts and embed URL
\* carrying it all validate, with that id as videoId and the canonical URL
\* https://www.youtube.com/watch?v=<id> as normalizedUrl.
C19_ShapesNormalizeAlike ==
    ValidatedOne /\ call.shape \in Shapes =>
        /\ ret.value.isValid
        /\ ret.value.videoId = call.id
        /\ ret.value.normalizedUrl = L_canonical \o call.id
        /\ ret.value.error = ""

C19_Witness ==
    /\ ValidatedOne
    /\ call.shape = "short"
    /\ call.id = Id_b
    /\ ret.value.normalizedUrl = L_canonical \o Id_b

\* the entries of the batch that are recognized, resp. not, in input order
RECURSIVE Entries(_, _)
Entries(entries, recognized) ==
    IF entries = <<>> THEN <<>>
    ELSE IF Head(entries).recognized = recognized
         THEN <<Head(entries).url>> \o Entries(Tail(entries), recognized)
         ELSE Entries(Tail(entries), recognized)
ResultUrls(list) == [i \in 1..Len(list) |-> list[i].url]

\* C20: validateUrls returns every input URL in exactly one of valid and
\* invalid, each list in input order; a valid entry carries a videoId and a
\* normalizedUrl, an invalid entry a non-empty error.
C20_BatchPartitions ==
    ValidatedBatch =>
        /\ Len(ret.value.valid) + Len(ret.value.invalid) = Len(call.urls)
        /\ ResultUrls(ret.value.valid) = Entries(call.entries, TRUE)
        /\ ResultUrls(ret.value.invalid) = Entries(call.entries, FALSE)
        /\ \A i \in 1..Len(ret.value.valid) :
              /\ ret.value.valid[i].videoId # <<>>
              /\ ret.value.valid[i].normalizedUrl = L_canonical \o ret.value.valid[i].videoId
        /\ \A i \in 1..Len(ret.value.invalid) : ret.value.invalid[i].error # ""

C20_Witness ==
    /\ ValidatedBatch
    /\ Len(ret.value.valid) = 2
    /\ Len(ret.value.invalid) = 1
    /\ ret.value.valid[1].videoId # ret.value.valid[2].videoId
    /\ call.entries[2].recognized = FALSE

(***************************************************************************)
(* Magnitude decoder: parseCommentCount (metadata) and parseVoteCount      *)
(* (comments).  Strings are sequences of characters; a number is an        *)
(* integer, a decimal fraction a mantissa with a scale.                    *)
(***************************************************************************)
\* number | null
NullNumber == [isNull |-> TRUE, n |-> 0]
Number(n) == [isNull |-> FALSE, n |-> n]

IsDigit(ch) == ch \in Range(Digits)
DigitValue(ch) == (CHOOSE i \in 1..Len(Digits) : Digits[i] = ch) - 1
\* [\d,.]
IsNumberChar(ch) == IsDigit(ch) \/ ch \in {",", "."}
\* [KMB] under the i flag
IsSuffixChar(ch) == ch \in {"K", "M", "B", "k", "m", "b"}

\* the length of the longest prefix of s from position k whose characters
\* satisfy the test; Test is IsDigit, IsNumberChar or a test for the space
RECURSIVE DigitRun(_, _)
DigitRun(s, k) == IF k <= Len(s) /\ IsDigit(s[k]) THEN 1 + DigitRun(s, k + 1) ELSE 0
RECURSIVE NumberRun(_, _)
NumberRun(s, k) ==
    IF k <= Len(s) /\ IsNumberChar(s[k]) THEN 1 + NumberRun(s, k + 1) ELSE 0
RECURSIVE SpaceRun(_, _)
SpaceRun(s, k) == IF k <= Len(s) /\ s[k] = " " THEN 1 + SpaceRun(s, k + 1) ELSE 0

\* the integer written by a sequence of digits (0 for the empty one)
RECURSIVE DigitsValue(_)
DigitsValue(ds) ==
    IF ds = <<>> THEN 0
    ELSE 10 * DigitsValue(SubSeq(ds, 1, Len(ds) - 1)) + DigitValue(ds[Len(ds)])

RECURSIVE Pow10(_)
Pow10(n) == IF n = 0 THEN 1 ELSE 10 * Pow10(n - 1)

\* s.replace(/,/g, '')
RECURSIVE RemoveCommas(_)
RemoveCommas(s) ==
    IF s = <<>> THEN <<>>
    ELSE IF Head(s) = "," THEN RemoveCommas(Tail(s))
    ELSE <<Head(s)>> \o RemoveCommas(Tail(s))

L_comment == <<"c", "o", "m", "m", "e", "n", "t">>
\* countStr.replace(/comments?/i, ''): the first occurrence only
RemoveCommentsWord(s) ==
    LET lower == toLowerCase(s)
        at == {k \in 1..Len(s) : StartsWithAt(lower, k, L_comment)}
    IN  IF at = {} THEN s
        ELSE LET k == CHOOSE i \in at : \A j \in at : i <= j
                 after == k + Len(L_comment)
                 end == IF after <= Len(s) /\ lower[after] = "s" THEN after + 1 ELSE after
             IN  SubSeq(s, 1, k - 1) \o SubSeq(s, end, Len(s))

\* cleaned.match(/^([\d,.]+)\s*([KMB])?$/i): whether it matches, group 1 and
\* group 2 (<<>> when the suffix is absent)
SuffixMatch(cleaned) ==
    LET n == NumberRun(cleaned, 1)
        sp == SpaceRun(cleaned, n + 1)
        rest == SubSeq(cleaned, n + sp + 1, Len(cleaned))
    IN  [matches |-> n >= 1 /\ (rest = <<>> \/ (Len(rest) = 1 /\ IsSuffixChar(rest[1]))),
         number |-> SubSeq(cleaned, 1, n),
         suffix |-> rest]

\* parseFloat(numStr) on a string of digits and dots: the longest prefix
\* digits [. digits]; NaN when it holds no digit.  The value is
\* mantissa / 10^scale.
parseFloat(numStr) ==
    LET whole == DigitRun(numStr, 1)
        dot == whole + 1 <= Len(numStr) /\ numStr[whole + 1] = "."
        frac == IF dot THEN DigitRun(numStr, whole + 2) ELSE 0
    IN  [isNaN |-> whole + frac = 0,
         mantissa |-> DigitsValue(SubSeq(numStr, 1, whole)) * Pow10(frac)
                        + DigitsValue(SubSeq(numStr, whole + 2, whole + 1 + frac)),
         scale |-> frac]

\* parseInt(s, 10) on a trimmed string: an optional sign and the longest
\* prefix of digits; NaN when there is none
parseInt(s) ==
    LET signed == s # <<>> /\ Head(s) \in {"-", "+"}
        from == IF signed THEN 2 ELSE 1
        n == DigitRun(s, from)
        magnitude == DigitsValue(SubSeq(s, from, from + n - 1))
    IN  [isNaN |-> n = 0,
         n |-> IF signed /\ Head(s) = "-" THEN 0 - magnitude ELSE magnitude]

\* the multiplier of switch (suffix): K, M, B, default
Multiplier_none(suffix) == 1
Multiplier(suffix) ==
    CASE toLowerCase(suffix) = <<"k">> -> 1000
      [] toLowerCase(suffix) = <<"m">> -> 1000000
      [] toLowerCase(suffix) = <<"b">> -> 1000000000
      [] OTHER -> 1

\* Math.round(num * multiplier) for num = mantissa / 10^scale >= 0; the
\* inputs are such that the double product of the code is exact
RoundScaled(num, multiplier) ==
    LET product == num.mantissa * multiplier
        unit == Pow10(num.scale)
    IN  (product \div unit) + (IF 2 * (product % unit) >= unit THEN 1 ELSE 0)

\* the decoder both functions run on the cleaned string; onFailure is what
\* the caller returns for NaN: null or 0
DecodeMagnitude(cleaned, onFailure) ==
    LET suffixMatch == SuffixMatch(cleaned)
        num == parseFloat(RemoveCommas(suffixMatch.number))
        directNum == parseInt(RemoveCommas(cleaned))
    IN  IF suffixMatch.matches
        THEN IF num.isNaN THEN onFailure
             ELSE Number(RoundScaled(num, Multiplier(suffixMatch.suffix)))
        ELSE IF directNum.isNaN THEN onFailure ELSE Number(directNum.n)

\* a string argument, or null
NullString == [isNull |-> TRUE, text |-> <<>>]
String(s) == [isNull |-> FALSE, text |-> s]

\* parseCommentCount(countStr)
parseCommentCount(countStr) ==
    IF countStr.isNull \/ countStr.text = <<>> THEN NullNumber
    ELSE DecodeMagnitude(Trim(RemoveCommentsWord(countStr.text)), NullNumber)

\* voteCount?: { simpleText?: string; runs?: [{text}] }
NoVoteCount == [present |-> FALSE, simpleText |-> <<>>, runs |-> <<>>]
VoteCount(simpleText, runs) == [present |-> TRUE, simpleText |-> simpleText, runs |-> runs]

RECURSIVE JoinTexts(_)
JoinTexts(runs) == IF runs = <<>> THEN <<>> ELSE Head(runs) \o JoinTexts(Tail(runs))

\* parseVoteCount(voteCount)
parseVoteCount(voteCount) ==
    LET text == IF voteCount.simpleText # <<>> THEN voteCount.simpleText
                ELSE JoinTexts(voteCount.runs)
    IN  IF ~voteCount.present \/ text = <<>> THEN Number(0)
        ELSE DecodeMagnitude(Trim(text), Number(0))

(***************************************************************************)
(* The decoder specification: one call of parseCommentCount or of          *)
(* parseVoteCount on a text.                                               *)
(***************************************************************************)
MaxRuns == 2

T_234 == <<"2", "3", "4">>
T_1c234 == <<"1", ",", "2", "3", "4">>
T_1p2K == <<"1", ".", "2", "K">>
T_45K == <<"4", "5", "K">>
T_2p5M == <<"2", ".", "5", "M">>
T_2B == <<"2", "B">>
T_1p2k == <<"1", ".", "2", "k">>
T_45k == <<"4", "5", "k">>
T_2p5m == <<"2", ".", "5", "m">>
T_2b == <<"2", "b">>
T_padded == <<" ", " ", "1", "0", "0", " ", " ">>
T_spacedK == <<"3", " ", "K">>
T_1c234Comments == <<"1", ",", "2", "3", "4", " ", "C", "o", "m", "m", "e", "n", "t", "s">>
T_1Comment == <<"1", " ", "C", "o", "m", "m", "e", "n", "t">>
T_1p2KComments == <<"1", ".", "2", "K", " ", "C", "o", "m", "m", "e", "n", "t", "s">>
T_comments5 == <<"C", "o", "m", "m", "e", "n", "t", "s", " ", "5">>
T_word == <<"a", "b", "c">>
T_comma == <<",">>
T_dot == <<".">>
T_twoDots == <<"1", ".", "2", ".", "3", "K">>
T_trailingDot == <<"7", ".">>
T_half == <<"0", ".", "5">>
T_negative == <<"-", "5">>
T_mixed == <<"1", "2", "a", "b", "c">>
T_zero == <<"0">>

DecodeTexts ==
    {T_234, T_1c234, T_1p2K, T_45K, T_2p5M, T_2B, T_1p2k, T_45k, T_2p5m, T_2b,
     T_padded, T_spacedK, T_1c234Comments, T_1Comment,
     T_1p2KComments, T_comments5, T_word, T_comma, T_dot, T_twoDots, T_trailingDot,
     T_half, T_negative, T_mixed, T_zero}

\* the ways of cutting a text into at most MaxRuns runs
RunsOf(text) ==
    {<<text>>} \cup
    (IF MaxRuns >= 2
     THEN {<<SubSeq(text, 1, k), SubSeq(text, k + 1, Len(text))>> : k \in 1..(Len(text) - 1)}
     ELSE {}) \cup
    (IF MaxRuns >= 3 /\ Len(text) >= 3
     THEN {<<SubSeq(text, 1, 1), SubSeq(text, 2, 2), SubSeq(text, 3, Len(text))>>}
     ELSE {})

CommentCountCalls ==
    {[fn |-> "parseCommentCount", countStr |-> c] :
        c \in {NullString, String(<<>>)} \cup {String(t) : t \in DecodeTexts}}

VoteCountCalls ==
    {[fn |-> "parseVoteCount", voteCount |-> v] :
        v \in {NoVoteCount, VoteCount(<<>>, <<>>)}
              \cup {VoteCount(t, <<>>) : t \in DecodeTexts}
              \cup {VoteCount(<<>>, r) : r \in UNION {RunsOf(t) : t \in DecodeTexts}}}

\* the engine's variables at rest, for the specifications of pure functions
EngineIdle ==
    /\ maxComments = 0
    /\ includeReplies = TRUE
    /\ comments = <<>>
    /\ continuationToken = NoToken
    /\ replyContinuationTokens = <<>>
    /\ consecutiveEmptyPages = 0
    /\ timedOut = FALSE
    /\ firstBatchReceived = FALSE
    /\ elapsedMs = 0
    /\ replyIdx = 1
    /\ currentReplyToken = NoToken
    /\ result = NoResult
    /\ topFetches = 0
    /\ replyFetches = 0
    /\ landing = NotLanded
    /\ fetchFailed = FALSE
    /\ exhausted = {}
    /\ pagesSeen = <<>>
    /\ request = NoToken
    /\ replySeen = NoReplySeen
    /\ minRequestMs = 0
    /\ runSummary = NoSummary
    /\ videoIdx = 0
    /\ videoStates = <<>>
    /\ dataset = <<>>
    /\ retry = NoRetry

InitDecode ==
    /\ EngineIdle
    /\ pc = "pure"
    /\ call \in CommentCountCalls \cup VoteCountCalls
    /\ ret = NoRet

DecodeCommentCount ==
    /\ pc = "pure" /\ ret = NoRet /\ call.fn = "parseCommentCount"
    /\ ret' = Returned(parseCommentCount(call.countStr))
    /\ UNCHANGED <<engineVars, call, retry>>

DecodeVoteCount ==
    /\ pc = "pure" /\ ret = NoRet /\ call.fn = "parseVoteCount"
    /\ ret' = Returned(parseVoteCount(call.voteCount))
    /\ UNCHANGED <<engineVars, call, retry>>

NextDecode == DecodeCommentCount \/ DecodeVoteCount

SpecDecode == InitDecode /\ [][NextDecode]_vars

DecodedCommentCount == pc = "pure" /\ ret # NoRet /\ call.fn = "parseCommentCount"
DecodedVoteCount == pc = "pure" /\ ret # NoRet /\ call.fn = "parseVoteCount"

\* the text a call decodes
DecodeText ==
    IF call.fn = "parseCommentCount" THEN call.countStr.text
    ELSE IF call.voteCount.simpleText # <<>> THEN call.voteCount.simpleText
    ELSE JoinTexts(call.voteCount.runs)

\* the documented examples
ExampleValue(text) ==
    CASE text = T_234 -> 234
      [] text = T_1c234 -> 1234
      [] text \in {T_1p2K, T_1p2k} -> 1200
      [] text \in {T_45K, T_45k} -> 45000
      [] text \in {T_2p5M, T_2p5m} -> 2500000
      [] text \in {T_2B, T_2b} -> 2000000000
      [] OTHER -> -1

HasCommentsWord(text) == RemoveCommentsWord(text) # text

\* what the other context returns for the text of this call
OtherContext ==
    IF call.fn = "parseCommentCount" THEN parseVoteCount(VoteCount(DecodeText, <<>>))
    ELSE parseCommentCount(String(DecodeText))

\* C21 (as stated): parseCommentCount and parseVoteCount return the same
\* number for every non-empty text that parseCommentCount decodes.
C21_ContextsAgree ==
    (DecodedCommentCount /\ ~ret.value.isNull) => ret.value = OtherContext

\* C21: in both contexts "234" is 234, "1,234" is 1234, "1.2K" is 1200,
\* "45K" is 45000, "2.5M" is 2500000 and "2B" is 2000000000, with the suffix
\* in either case; an empty or missing text is null for parseCommentCount and
\* 0 for parseVoteCount; and the two contexts return the same number for
\* every text parseCommentCount decodes that does not hold the word
\* "comment(s)", which only parseCommentCount removes.
C21_DecoderExamplesAndAgreement ==
    /\ (DecodedCommentCount \/ DecodedVoteCount) /\ ExampleValue(DecodeText) # -1
          => ret.value = Number(ExampleValue(DecodeText))
    /\ DecodedCommentCount /\ DecodeText = <<>> => ret.value = NullNumber
    /\ DecodedVoteCount /\ DecodeText = <<>> => ret.value = Number(0)
    /\ (DecodedCommentCount \/ DecodedVoteCount)
          /\ ~parseCommentCount(String(DecodeText)).isNull
          /\ ~HasCommentsWord(DecodeText)
          => ret.value = OtherContext

C21_Witness ==
    /\ DecodedVoteCount
    /\ call.voteCount.runs = <<SubSeq(T_2p5m, 1, 2), SubSeq(T_2p5m, 3, 4)>>
    /\ ret.value = Number(2500000)

(***************************************************************************)
(* The landing-page token specification: one call of                       *)
(* extractCommentsContinuationToken on a ytInitialData.                    *)
(***************************************************************************)
MaxTokens == 6

\* the tokens a location may hold: none, or one of MaxTokens - 1 tokens
TokenNames == <<"k0", "k1", "k2", "k3", "k4", "k5", "k6", "k7">>
LandingTokens == {NoToken} \cup {TokenNames[i] : i \in 1..Min(MaxTokens - 1, Len(TokenNames))}

TokenCalls ==
    {[fn |-> "extractCommentsContinuationToken",
      ytInitialData |-> InitialData(TRUE, messages, legacy, panel)] :
        messages \in {<<>>, <<"Be the first to comment">>},
        legacy \in LandingTokens, panel \in LandingTokens}

InitToken ==
    /\ EngineIdle
    /\ pc = "pure"
    /\ call \in TokenCalls
    /\ ret = NoRet

ExtractToken ==
    /\ pc = "pure" /\ ret = NoRet /\ call.fn = "extractCommentsContinuationToken"
    /\ ret' = Returned(extractCommentsContinuationToken(call.ytInitialData))
    /\ UNCHANGED <<engineVars, call, retry>>

NextToken == ExtractToken

SpecToken == InitToken /\ [][NextToken]_vars

\* C22: the token of the engagement panels is returned when they hold one,
\* whatever the two-column location holds; otherwise the token of the
\* two-column location; and null when neither location holds one.
C22_PanelTokenFirst ==
    (pc = "pure" /\ ret # NoRet /\ call.fn = "extractCommentsContinuationToken") =>
        ret.value = IF call.ytInitialData.panelToken # NoToken
                    THEN call.ytInitialData.panelToken
                    ELSE call.ytInitialData.legacyToken

(***************************************************************************)
(* Further properties of the pagination engine                             *)
(***************************************************************************)
\* the position awaits a request: the landing page, a top-level page, a
\* reply page
Awaiting == pc \in {"boot", "topFetch", "replyFetch"}

\* C23: a paginated request is started only at a loop head, where no request
\* is awaited, and one at a time; no paginated request is awaited before the
\* landing page was fetched and read; and once a reply request was started no
\* top-level request is started.
C23_RequestsAreSequential ==
    /\ [](pc \in {"topFetch", "replyFetch"} => landing.fetched /\ landing.data.present)
    /\ [](replyFetches > 0 => pc \notin {"boot", "topCheck", "topFetch"})
    /\ [][Fetches' # Fetches =>
            /\ Fetches' = Fetches + 1
            /\ ~Awaiting /\ pc \in {"topCheck", "replyCheck"}
            /\ pc' \in {"topFetch", "replyFetch"}]_vars
    /\ [][topFetches' # topFetches => replyFetches = 0 /\ replyFetches' = 0]_vars

C23_Witness == pc = "replyFetch" /\ topFetches >= 2 /\ replyFetches >= 2

\* the response page has none of the shapes the legacy pass reads: no endpoint
\* list, one that is not iterable, or only wrappers it does not know
Unrecognized(page) ==
    \/ ~page.hasEndpoints
    \/ ~page.iterable
    \/ \A i \in 1..Len(page.endpoints) : page.endpoints[i].wrapper \notin {"reload", "append"}

LastPage == pagesSeen[Len(pagesSeen)]
\* this step received a top-level page
PageReceived == Len(pagesSeen') = Len(pagesSeen) + 1
LastPageAfter == pagesSeen'[Len(pagesSeen')]

C27_CapBoundsCountAndFetches ==
    /\ [](maxComments > 0 =>
            Len(TopLevel(comments)) <= Len(comments) /\ Len(comments) <= maxComments)
    /\ [][maxComments > 0 /\ Fetches' > Fetches => Len(comments) < maxComments]_vars

C27_Witness ==
    /\ maxComments > 0
    /\ Len(comments) = maxComments
    /\ comments[Len(comments)].type = "reply"
    /\ pc = "replyCheck"
    /\ currentReplyToken # NoToken

RECURSIVE EmptyRun(_)
\* the number of zero-yield pages at the end of a sequence of received pages
EmptyRun(pages) ==
    IF pages = <<>> \/ pages[Len(pages)].yield # 0 THEN 0
    ELSE 1 + EmptyRun(SubSeq(pages, 1, Len(pages) - 1))

\* C28: the empty-page counter is the length of the run of zero-yield pages
\* that ends the pages received so far (0 at the start, 0 after a page with
\* comments, one more after an empty page), it stays within 0..3, and the
\* pagination is aborted for empty pages only with three empty pages in a row.
C28_CounterIsEmptyRun ==
    /\ consecutiveEmptyPages = EmptyRun(pagesSeen)
    /\ consecutiveEmptyPages \in 0..MAX_CONSECUTIVE_EMPTY_PAGES
    /\ EmptyAborted <=>
          /\ Len(pagesSeen) >= MAX_CONSECUTIVE_EMPTY_PAGES
          /\ \A i \in (Len(pagesSeen) - MAX_CONSECUTIVE_EMPTY_PAGES + 1)..Len(pagesSeen) :
                pagesSeen[i].yield = 0
    /\ EmptyAborted => pc \notin {"topCheck", "topFetch"}

\* two empty pages, a page with comments, two empty pages: no abort
C28_Witness ==
    /\ Len(pagesSeen) = 5
    /\ pagesSeen[1].yield = 0 /\ pagesSeen[2].yield = 0
    /\ pagesSeen[3].yield > 0
    /\ pagesSeen[4].yield = 0 /\ pagesSeen[5].yield = 0
    /\ consecutiveEmptyPages = 2
    /\ pc = "topCheck" /\ continuationToken # NoToken

SomePageHadComments == \E i \in 1..Len(pagesSeen) : pagesSeen[i].yield > 0

\* C29: firstBatchReceived is true exactly when some received page parsed to
\* at least one comment, and never goes back to false; a timeout that fires
\* before the total budget is spent is the first-batch deadline, and it fires
\* only while no page with comments has arrived; once one has, timedOut is
\* set only with the total budget spent.
C29_FirstBatchDeadlineOnlyBeforeFirstBatch ==
    /\ [](firstBatchReceived <=> SomePageHadComments)
    /\ [][firstBatchReceived => firstBatchReceived']_vars
    /\ [][~timedOut /\ timedOut' =>
            /\ TotalTimeout(elapsedMs)
                 \/ (~SomePageHadComments /\ elapsedMs >= FIRST_BATCH_DEADLINE_MS
                        /\ pc = "topCheck")
            /\ SomePageHadComments => TotalTimeout(elapsedMs)]_vars

C29_Witness ==
    /\ timedOut
    /\ ~firstBatchReceived
    /\ ~TotalTimeout(elapsedMs)
    /\ pagesSeen # <<>>
    /\ pc = "replyStart"

\* the top-level phase ended on a failed request or on the empty-page abort
TopPhaseCutShort == (fetchFailed /\ replyFetches = 0) \/ EmptyAborted

\* C30: a top-level request that fails, or the empty-page abort, leaves the
\* top-level loop for the guard of the reply phase, not for the return; from
\* there, with replies wanted, no timeout and the cap not reached, the engine
\* enters the reply loop, and for an eligible parent it discovered it starts
\* the reply request.
C30_ReplyPhaseAfterTopFailure ==
    /\ [][pc = "topFetch" /\ pc' # "topCheck" => pc' = "replyStart"]_vars
    /\ [][pc = "replyStart" /\ TopPhaseCutShort /\ includeReplies /\ ~timedOut /\ ~AtCap
            => pc' = "replyParent" /\ comments' = comments]_vars
    /\ [][pc = "replyParent" /\ replyIdx <= Len(replyContinuationTokens)
            /\ ~AtCap /\ ~TotalTimeout(elapsedMs) /\ EligibleParent(replyIdx)
            => pc' = "replyCheck" /\ currentReplyToken' # NoToken]_vars
    /\ [][pc = "replyCheck" /\ currentReplyToken # NoToken
            /\ ~AtCap /\ ~TotalTimeout(elapsedMs)
            => pc' = "replyFetch" /\ replyFetches' = replyFetches + 1]_vars

C30_Witness ==
    /\ pc = "replyFetch"
    /\ fetchFailed
    /\ replyFetches = 1
    /\ comments # <<>>

(***************************************************************************)
(* The reply phase and the threading of tokens                             *)
(***************************************************************************)
\* the parent whose reply loop is running
CurrentParent == replyContinuationTokens[replyIdx][1]

\* a retained top-level comment with this id declares replies
RetainedParent(cid) ==
    \E i \in 1..Len(comments) :
        /\ comments[i].cid = cid
        /\ comments[i].type = "comment"
        /\ comments[i].replyCount > 0

\* C31: a reply request is issued for a parent only if the parent is a
\* retained top-level comment declaring replies for which a reply token was
\* discovered; the reply phase is skipped when the cap was reached or a timeout
\* fired in the top-level phase.
C31_ReplyFetchOnlyForRetainedParents ==
    /\ [](pc = "replyFetch" =>
            /\ MapHas(replyContinuationTokens, CurrentParent)
            /\ RetainedParent(CurrentParent))
    /\ [][pc = "replyStart" /\ (AtCap \/ timedOut) => pc' = "finish"]_vars

\* the next token the parser reads from the k-th top-level response
TopTokenAfter(k) == parseCommentsFromResponse(pagesSeen[k].page).nextContinuationToken
\* the token the bootstrap read from the landing page
BootstrapToken == extractCommentsContinuationToken(landing.data)
\* the next token the parser reads from the reply response last received
ReplyTokenAfter ==
    parseRepliesFromResponse(replySeen.page, CurrentParent).nextContinuationToken

\* C32: tokens go from response to request: the first top-level request sends
\* the bootstrap token, the (k+1)-th sends the next token parsed from the k-th
\* response, no top-level request follows a response without a next token, and
\* in a parent's reply loop the first request sends the token discovered for
\* the parent and each later one the next token of the reply response before.
C32_TokensThreaded ==
    /\ [](pc = "topFetch" =>
            /\ Len(pagesSeen) = topFetches - 1
            /\ request # NoToken
            /\ request = IF topFetches = 1 THEN BootstrapToken
                         ELSE TopTokenAfter(topFetches - 1))
    /\ [][pagesSeen # <<>> /\ TopTokenAfter(Len(pagesSeen)) = NoToken
            => topFetches' = topFetches]_vars
    /\ [](pc = "replyFetch" =>
            /\ request # NoToken
            /\ request = IF replySeen.seen THEN ReplyTokenAfter
                         ELSE replyContinuationTokens[replyIdx][2])
    /\ [](pc \notin {"topFetch", "replyFetch"} => request = NoToken)

C32_Witness ==
    /\ pc = "replyFetch"
    /\ topFetches = 3
    /\ replySeen.seen
    /\ request = "k2"

\* the reply request awaited returns no response: it failed
ReplyRequestFails == pc = "replyFetch" /\ ~replySeen'.seen
\* every request of the top-level loop was answered
NoTopFailure == topFetches = Len(pagesSeen)
RepliesTo(cid) == {i \in 1..Len(comments) : comments[i].replyToCid = cid}

\* C34: a failed reply request ends the reply loop of its parent only: the
\* comments gathered so far, this parent's replies among them, stay, no
\* timeout is recorded and the loop over the parents goes on with the next
\* one; unless the cap or a timeout stopped it, every parent of the map has
\* had its turn when the engine returns.
C34_ReplyFailureEndsOneParent ==
    /\ [][ReplyRequestFails =>
            /\ comments' = comments
            /\ timedOut' = timedOut
            /\ replyIdx' = replyIdx + 1
            /\ pc' = "replyParent"]_vars
    /\ [](Done /\ Paginated /\ includeReplies /\ ~timedOut /\ ~AtCap =>
            replyIdx > Len(replyContinuationTokens))

\* the loop of c1 failed after one reply; the replies of the next parent
\* the engine found eligible were fetched after it
C34_Witness ==
    /\ Done
    /\ fetchFailed /\ NoTopFailure
    /\ ~timedOut /\ ~AtCap
    /\ RepliesTo("c1") # {}
    /\ "c1" \notin exhausted
    /\ \E i \in RepliesTo("c1"), j \in RepliesTo("c3") : i < j

(***************************************************************************)
(* Termination of one extraction.  Every awaited request is assumed to     *)
(* return and to take at least MinRequestMs; the program is sequential and *)
(* always takes its next step.                                             *)
(***************************************************************************)
InitLive ==
    /\ pc = "boot"
    /\ maxComments \in {0, CapChoice}
    /\ includeReplies \in BOOLEAN
    /\ comments = <<>>
    /\ continuationToken = NoToken
    /\ replyContinuationTokens = <<>>
    /\ consecutiveEmptyPages = 0
    /\ timedOut = FALSE
    /\ firstBatchReceived = FALSE
    /\ elapsedMs = 0
    /\ replyIdx = 1
    /\ currentReplyToken = NoToken
    /\ result = NoResult
    /\ topFetches = 0
    /\ replyFetches = 0
    /\ landing = NotLanded
    /\ fetchFailed = FALSE
    /\ exhausted = {}
    /\ pagesSeen = <<>>
    /\ request = NoToken
    /\ replySeen = NoReplySeen
    /\ minRequestMs = MinRequestMs
    /\ runSummary = NoSummary
    /\ videoIdx = 0
    /\ videoStates = <<>>
    /\ dataset = <<>>
    /\ call = NoCall
    /\ ret = NoRet
    /\ retry = NoRetry

SpecLive == InitLive /\ [][Next]_vars /\ WF_vars(Next)

\* C33: every extraction reaches its return, whatever the upstream answers
\* (a next token with every page, empty or not, with or without a cap), when
\* every request returns and takes some time; the requests the model follows
\* are never what stops it.
C33_ExtractionTerminates ==
    /\ <>Done
    /\ [](Fetches < FetchBudget)

\* an upstream that answered every request with a non-empty page and a next
\* token, no cap: stopped by the total budget
C33_Witness ==
    /\ Done
    /\ maxComments = 0
    /\ timedOut
    /\ Len(pagesSeen) = 4
    /\ \A i \in 1..Len(pagesSeen) :
          pagesSeen[i].yield > 0 /\ TopTokenAfter(i) # NoToken

(***************************************************************************)
(* The batch driver: the loop of Actor.main over the valid URLs, each      *)
(* iteration awaiting one extractComments (the engine above)               *)
(***************************************************************************)
MaxVideos == 2

\* VideoState of a valid URL before its turn, and of an invalid URL
PendingVideo ==
    [valid |-> TRUE, status |-> "PENDING", commentsExtracted |-> 0,
     repliesExtracted |-> 0, errorMessage |-> "", errorCategory |-> ""]
InvalidVideo ==
    [valid |-> FALSE, status |-> "FAILED", commentsExtracted |-> 0,
     repliesExtracted |-> 0, errorMessage |-> "Invalid YouTube URL",
     errorCategory |-> "PERMANENT"]

\* validUrls.length: the valid URLs come first in videoStates
ValidCount == Cardinality({i \in 1..Len(videoStates) : videoStates[i].valid})

TerminalStatuses == {"SUCCESS", "PARTIAL", "FAILED"}

\* result.replyCount: the replies the reply phase pushed
ReplyCount(cs) == Len(cs) - Len(TopLevel(cs))

\* one Actor.pushData(result.comments): the video it was called for and the
\* number of records it received
Pushed(i, cs) == [video |-> i, count |-> Len(cs)]

\* the state the catch block leaves: what was assigned before the throw stays
Caught(state) ==
    [state EXCEPT !.status = "FAILED", !.errorMessage = "pushData failed",
                  !.errorCategory = "TRANSIENT"]

Handled_permanentOnly(state, r) ==
    IF r.error # ""
    THEN IF r.errorCategory = "PERMANENT"
         THEN [state EXCEPT !.status = "FAILED", !.errorMessage = r.error,
                            !.errorCategory = r.errorCategory]
         ELSE state
    ELSE [state EXCEPT !.status = "SUCCESS",
                       !.commentsExtracted = Len(r.comments),
                       !.repliesExtracted = ReplyCount(r.comments)]

\* the state of a video after the branches on result.error, before any push
Handled(state, r) ==
    IF r.error # ""
    THEN IF r.errorCategory = "PERMANENT"
         THEN [state EXCEPT !.status = "FAILED", !.errorMessage = r.error,
                            !.errorCategory = r.errorCategory]
         ELSE IF Len(r.comments) > 0
         THEN [state EXCEPT !.status = "PARTIAL",
                            !.commentsExtracted = Len(r.comments),
                            !.repliesExtracted = ReplyCount(r.comments),
                            !.errorMessage = r.error,
                            !.errorCategory = r.errorCategory]
         ELSE [state EXCEPT !.status = "FAILED", !.errorMessage = r.error,
                            !.errorCategory = IF r.errorCategory = "" THEN "TRANSIENT"
                                              ELSE r.errorCategory]
    ELSE [state EXCEPT !.status = "SUCCESS",
                       !.commentsExtracted = Len(r.comments),
                       !.repliesExtracted = ReplyCount(r.comments)]

\* whether the branch taken pushes the comments
Pushes(r) ==
    /\ Len(r.comments) > 0
    /\ r.error = "" \/ r.errorCategory # "PERMANENT"

InitBatch ==
    /\ pc = "idle"
    /\ maxComments \in {0, CapChoice}
    /\ includeReplies = TRUE
    /\ comments = <<>>
    /\ continuationToken = NoToken
    /\ replyContinuationTokens = <<>>
    /\ consecutiveEmptyPages = 0
    /\ timedOut = FALSE
    /\ firstBatchReceived = FALSE
    /\ elapsedMs = 0
    /\ replyIdx = 1
    /\ currentReplyToken = NoToken
    /\ result = NoResult
    /\ topFetches = 0
    /\ replyFetches = 0
    /\ landing = NotLanded
    /\ fetchFailed = FALSE
    /\ exhausted = {}
    /\ pagesSeen = <<>>
    /\ request = NoToken
    /\ replySeen = NoReplySeen
    /\ minRequestMs = 0
    /\ runSummary = NoSummary
    /\ call = NoCall
    /\ ret = NoRet
    /\ retry = NoRetry
    /\ videoIdx = 1
    /\ \E n \in 1..MaxVideos, invalid \in 0..1 :
          /\ n + invalid <= MaxVideos
          /\ videoStates = [i \in 1..(n + invalid) |->
                               IF i <= n THEN PendingVideo ELSE InvalidVideo]
    /\ dataset = <<>>

StartVideo_keepState ==
    /\ pc = "idle"
    /\ videoIdx <= ValidCount
    /\ videoStates' = [videoStates EXCEPT ![videoIdx].status = "PROCESSING"]
    /\ pc' = "boot"
    /\ UNCHANGED <<comments, continuationToken, replyContinuationTokens,
                   consecutiveEmptyPages, timedOut, firstBatchReceived, elapsedMs,
                   replyIdx, currentReplyToken, result, landing, fetchFailed,
                   exhausted, pagesSeen, request, replySeen, minRequestMs, runSummary,
                   maxComments, includeReplies, topFetches, replyFetches,
                   call, ret, retry, videoIdx, dataset>>

\* the head of the loop body: state.status = 'PROCESSING', then the call of
\* extractComments, whose locals are created by the call.  The request
\* counters are not locals of the code: they count the requests of the run.
StartVideo ==
    /\ pc = "idle"
    /\ videoIdx <= ValidCount
    /\ videoStates' = [videoStates EXCEPT ![videoIdx].status = "PROCESSING"]
    /\ pc' = "boot"
    /\ comments' = <<>>
    /\ continuationToken' = NoToken
    /\ replyContinuationTokens' = <<>>
    /\ consecutiveEmptyPages' = 0
    /\ timedOut' = FALSE
    /\ firstBatchReceived' = FALSE
    /\ elapsedMs' = 0
    /\ replyIdx' = 1
    /\ currentReplyToken' = NoToken
    /\ result' = NoResult
    /\ landing' = NotLanded
    /\ fetchFailed' = FALSE
    /\ exhausted' = {}
    /\ pagesSeen' = <<>>
    /\ request' = NoToken
    /\ replySeen' = NoReplySeen
    /\ UNCHANGED <<maxComments, includeReplies, topFetches, replyFetches,
                   call, ret, retry, videoIdx, dataset, minRequestMs, runSummary>>

\* extractComments returned: the branches on result.error, the push, which
\* may throw into the catch block, and i++
HandleResult ==
    /\ pc = "done"
    /\ videoIdx \in 1..Len(videoStates)
    /\ videoStates[videoIdx].status = "PROCESSING"
    /\ LET handled == Handled(videoStates[videoIdx], result)
       IN  IF Pushes(result)
           THEN \E pushed \in BOOLEAN :
                  IF pushed
                  THEN /\ dataset' = Append(dataset, Pushed(videoIdx, result.comments))
                       /\ videoStates' = [videoStates EXCEPT ![videoIdx] = handled]
                  ELSE /\ videoStates' = [videoStates EXCEPT ![videoIdx] = Caught(handled)]
                       /\ UNCHANGED dataset
           ELSE /\ videoStates' = [videoStates EXCEPT ![videoIdx] = handled]
                /\ UNCHANGED dataset
    /\ videoIdx' = videoIdx + 1
    /\ pc' = "idle"
    /\ UNCHANGED <<comments, continuationToken, replyContinuationTokens,
                   consecutiveEmptyPages, timedOut, firstBatchReceived, elapsedMs,
                   replyIdx, currentReplyToken, result, landing, fetchFailed,
                   exhausted, pagesSeen, request, replySeen, minRequestMs, runSummary,
                   maxComments, includeReplies, topFetches, replyFetches,
                   call, ret, retry>>

\* the awaited extractComments rejected: the catch block, and i++
ExtractionThrew ==
    /\ pc = "boot"
    /\ videoIdx \in 1..Len(videoStates)
    /\ videoStates[videoIdx].status = "PROCESSING"
    /\ videoStates' = [videoStates EXCEPT
                         ![videoIdx] = [Caught(@) EXCEPT !.errorMessage = "extractComments failed"]]
    /\ videoIdx' = videoIdx + 1
    /\ pc' = "idle"
    /\ UNCHANGED <<comments, continuationToken, replyContinuationTokens,
                   consecutiveEmptyPages, timedOut, firstBatchReceived, elapsedMs,
                   replyIdx, currentReplyToken, result, landing, fetchFailed,
                   exhausted, pagesSeen, request, replySeen, minRequestMs, runSummary,
                   maxComments, includeReplies, topFetches, replyFetches,
                   call, ret, retry, dataset>>

\* videoStates.filter((s) => ...).length
CountStatus(states, statuses) ==
    Cardinality({i \in 1..Len(states) : states[i].status \in statuses})

\* the RunSummary computed after the loop
RunSummary(states) ==
    [written |-> TRUE,
     totalVideos |-> Len(states),
     successfulVideos |-> CountStatus(states, {"SUCCESS", "PARTIAL"}),
     failedVideos |-> CountStatus(states, {"FAILED"})]

\* after the loop: the run summary is computed and written
WriteSummary ==
    /\ pc = "idle"
    /\ videoIdx > ValidCount
    /\ ~runSummary.written
    /\ runSummary' = RunSummary(videoStates)
    /\ UNCHANGED <<pc, comments, continuationToken, replyContinuationTokens,
                   consecutiveEmptyPages, timedOut, firstBatchReceived, elapsedMs,
                   replyIdx, currentReplyToken, result, landing, fetchFailed,
                   exhausted, pagesSeen, request, replySeen, minRequestMs,
                   maxComments, includeReplies, topFetches, replyFetches,
                   call, ret, retry, videoIdx, videoStates, dataset>>

NextBatch ==
    \/ StartVideo
    \/ ExtractionThrew
    \/ BootstrapFetchFailed
    \/ Bootstrap
    \/ TopCheck
    \/ TopFetchFailed
    \/ TopResponse
    \/ ReplyStart
    \/ ReplyParent
    \/ ReplyCheck
    \/ ReplyFetchFailed
    \/ ReplyResponse
    \/ Finish
    \/ HandleResult
    \/ WriteSummary

SpecBatch == InitBatch /\ [][NextBatch]_vars

\* an extraction is running for the video at videoIdx (it ends by returning,
\* pc = "done", or by throwing into the catch block, pc = "idle")
Extracting == pc \notin {"idle", "done"}

\* the locals of extractComments as the call creates them
FreshPaginationState ==
    /\ comments = <<>>
    /\ continuationToken = NoToken
    /\ replyContinuationTokens = <<>>
    /\ consecutiveEmptyPages = 0
    /\ ~timedOut
    /\ ~firstBatchReceived
    /\ elapsedMs = 0
    /\ pagesSeen = <<>>

\* C24: the valid videos are processed one at a time in input order: those
\* before the loop index have a terminal status, those after it are still
\* PENDING, and the one at the index is PROCESSING from the start of its
\* extraction to the handling of its result; the index moves by one, and only
\* when the video it leaves has a terminal status; every extraction starts
\* from a pagination state of its own (empty list, no token, empty map, zero
\* counters) and while it runs no video state and no pushed record changes.
C24_VideosOneAtATimeInOrder ==
    /\ [](\A i \in 1..ValidCount :
            /\ i < videoIdx => videoStates[i].status \in TerminalStatuses
            /\ i > videoIdx => videoStates[i].status = "PENDING"
            /\ i = videoIdx => videoStates[i].status =
                                  IF pc = "idle" THEN "PENDING" ELSE "PROCESSING")
    /\ [](pc = "boot" => FreshPaginationState)
    /\ [][videoIdx' # videoIdx =>
            /\ videoIdx' = videoIdx + 1
            /\ videoStates[videoIdx].status = "PROCESSING"
            /\ videoStates'[videoIdx].status \in TerminalStatuses]_vars
    /\ [][Extracting /\ pc' # "idle" => UNCHANGED <<videoIdx, videoStates, dataset>>]_vars
    /\ [](\A j, k \in 1..Len(dataset) : j < k => dataset[j].video < dataset[k].video)

C24_Witness ==
    /\ videoIdx = 2
    /\ pc = "replyFetch"
    /\ videoStates[1].status = "SUCCESS"
    /\ videoStates[1].commentsExtracted > 0
    /\ videoStates[2].status = "PROCESSING"
    /\ comments # <<>>

\* the result of the video before the loop index was just handled; the
\* engine's variables are still those of its extraction
JustHandled == pc = "idle" /\ videoIdx > 1
\* pushData was called for the video and did not throw
WasPushed(i) == \E j \in 1..Len(dataset) : dataset[j].video = i

\* C25: a video whose extraction gathered some comments and then failed (a
\* paginated request failed, or a timeout fired) ends PARTIAL with its
\* comments pushed and an error category recorded, and a video ends SUCCESS
\* only if its extraction did not fail.
C25_FailedAfterCommentsIsPartial ==
    /\ (JustHandled /\ comments # <<>> /\ (fetchFailed \/ timedOut) /\ WasPushed(videoIdx - 1))
          => /\ videoStates[videoIdx - 1].status = "PARTIAL"
             /\ videoStates[videoIdx - 1].errorCategory # ""
    /\ (JustHandled /\ videoStates[videoIdx - 1].status = "SUCCESS")
          => ~(fetchFailed \/ timedOut)

\* C38: when the run summary is written the loop has gone over every valid
\* video and every video state is SUCCESS, PARTIAL or FAILED, whatever the
\* extractions returned or threw: successfulVideos + failedVideos is
\* totalVideos, and a video that failed did not keep a later one from its turn.
C38_SummaryOverTerminalStates ==
    runSummary.written =>
        /\ videoIdx = ValidCount + 1
        /\ \A i \in 1..Len(videoStates) : videoStates[i].status \in TerminalStatuses
        /\ runSummary.totalVideos = Len(videoStates)
        /\ runSummary.successfulVideos + runSummary.failedVideos = runSummary.totalVideos

\* the first video failed, the second was extracted after it
C38_Witness ==
    /\ runSummary.written
    /\ ValidCount = 2
    /\ videoStates[1].status = "FAILED"
    /\ videoStates[1].errorCategory = "TRANSIENT"
    /\ videoStates[2].status = "SUCCESS"
    /\ videoStates[2].commentsExtracted > 0
    /\ runSummary.successfulVideos = 1
    /\ runSummary.failedVideos = 1

====
